---------------------------- MODULE Spec2Model ----------------------------
(***************************************************************************)
(* A model of the worst-move chess engines of this repository:             *)
(*   src/src/evaluator.py, src/src/engine.py, src/src/fast_evaluator.py    *)
(*   src/src/search.py, src/src/fast_search.py, src/src/worst_engine.py,   *)
(*   src/src/greedy_engine.py, src/src/fast_move_order.py.                 *)
(*                                                                         *)
(* The chess rules library (python-chess) is the external Board Adapter.   *)
(* A game is a finite tree of positions; every position carries what the   *)
(* engines ask the adapter about it: the legal moves in enumeration order  *)
(* (each with its capture flag and the static part of its ordering score), *)
(* whether the side to move is in check, whether a draw can be claimed,    *)
(* and the value the heuristic terms of the evaluators sum to.             *)
(***************************************************************************)
EXTENDS Integers, Sequences, FiniteSets, TLC

VARIABLES
    engine,      \* which engine (or evaluator) class the instance is of
    board,       \* the caller's chess.Board: [game, turn, stack]
    last_move,   \* WorstEngine.last_move (worst_engine.py)
    call,        \* the last engine call and what it returned
    ecache,      \* the _cache of the instance's evaluator
    probe,       \* evaluator runs: the position whose scores are compared
    stdio,       \* engine_stdin.py: the process, its stdin and its stdout
    web,         \* web_app.py: game_state, the engine threads, the last request
    inst,        \* a search instance called again and again: its tables
    pool,        \* the worker threads of one _negamax_root and their table
    ordering     \* a move orderer applied to a position: what it returned

vars ==
    <<engine, board, last_move, call, ecache, probe, stdio, web, inst, pool,
      ordering>>

\* what the runs of the engines and of the evaluators leave alone
aux == <<stdio, web, inst, pool, ordering>>

\* no move (Python None), among moves given as indices 1..n of the legal moves
None == -1

\* max_time not reached by any poll of the clock
Unlimited == -1

----------------------------------------------------------------------------
(* Numbers of the source.                                                  *)

\* float("inf") of search.py and the 1e9 placeholder of the other searches
Inf == 2000000000
Big == 1000000000

MATE_SCORE       == 50000      \* evaluators: checkmate
STALEMATE_SCORE  == 25000      \* evaluators: stalemate
max_tt           == 200000     \* FastWorstSearch: bound of self.tt
max_table_size   == 1000000    \* WorstMoveSearch: bound of the table
REPETITION_SCORE == 20000      \* evaluator.py: repetition
DRAW_SCORE       == 15000      \* evaluators: claimable draw
FIFTY_CLOCK      == 100        \* halfmove clock at which a draw is claimable

----------------------------------------------------------------------------
(* Bounds of the model.                                                    *)

MaxCacheSize == 2     \* stands for max_cache_size (50_000 / 100_000)
MaxDepth == 3         \* configured search depths 1..MaxDepth
MaxPolls == 8         \* the clock runs out at poll 0..MaxPolls, or never
MaxWorkerPolls == 1   \* polls a root worker of search.py makes in time
MaxNarrow == 2        \* legal moves at the root of a deep game
MaxWide == 6          \* legal moves at the root of a shallow game
MaxPlacements == 2    \* piece placements an evaluator is run on
MaxEvals == 3         \* evaluations of the watched position that are counted

----------------------------------------------------------------------------
(* Positions as the evaluators see them.                                   *)
(*   pl    : what board_hash / board_key hash (pieces, turn, castling, ep);*)
(*           in-check, the legal moves and the heuristic sum are functions *)
(*           of it, so they are fields of it                               *)
(*   clock : the halfmove clock (part of the FEN, not of board_hash)       *)
(*   rep   : whether the move stack holds a repetition (in neither key)    *)

Placement(id, turn, chk, nmoves, h) ==
    [id |-> id, turn |-> turn, chk |-> chk, nmoves |-> nmoves, h |-> h]

Position(pl, clock, rep) == [pl |-> pl, clock |-> clock, rep |-> rep]

is_checkmate(p) == p.pl.nmoves = 0 /\ p.pl.chk
is_stalemate(p) == p.pl.nmoves = 0 /\ ~p.pl.chk
can_claim_threefold_repetition(p) == p.rep /\ p.pl.nmoves > 0
can_claim_fifty_moves(p) == p.clock >= FIFTY_CLOCK /\ p.pl.nmoves > 0
can_claim_draw(p) == can_claim_fifty_moves(p) \/ can_claim_threefold_repetition(p)

\* board.fen(): placement, turn, castling, ep, halfmove clock, fullmove number
fen(p) == [pl |-> p.pl, clock |-> p.clock]

\* board_hash (engine.py) and board_key (fast_tables.py): no move counters
board_hash(p) == p.pl

board_key(p) == p.pl

----------------------------------------------------------------------------
(* Caches: Python dicts, as functions on a finite set of keys.             *)

EmptyDict == << >>

DictPut(d, k, v) == [x \in (DOMAIN d) \cup {k} |-> IF x = k THEN v ELSE d[x]]

\* "if len(cache) >= max: cache.clear()" followed by "cache[key] = score"
CacheStore(cache, key, score) ==
    IF Cardinality(DOMAIN cache) >= MaxCacheSize
    THEN DictPut(EmptyDict, key, score)
    ELSE DictPut(cache, key, score)

----------------------------------------------------------------------------
(* The evaluators.  Each returns [score, cache, hit]: the score, the cache *)
(* after the call and whether the score was served from the cache.         *)

EvalResult(score, cache, hit) == [score |-> score, cache |-> cache, hit |-> hit]

\* the weighted sum of the heuristic terms, a function of the placement
HeuristicSum(p) == p.pl.h

\* evaluator.py: Evaluator.evaluate_position
evaluate_position(cache, p) ==
    IF is_checkmate(p)
    THEN EvalResult(IF p.pl.turn THEN -MATE_SCORE ELSE MATE_SCORE, cache, FALSE)
    ELSE IF is_stalemate(p)
    THEN EvalResult(STALEMATE_SCORE, cache, FALSE)
    ELSE IF can_claim_threefold_repetition(p)
    THEN EvalResult(IF p.pl.turn THEN REPETITION_SCORE ELSE -REPETITION_SCORE,
                    cache, FALSE)
    ELSE IF can_claim_draw(p)
    THEN EvalResult(DRAW_SCORE, cache, FALSE)
    ELSE IF fen(p) \in DOMAIN cache
    THEN EvalResult(cache[fen(p)], cache, TRUE)
    ELSE EvalResult(HeuristicSum(p), CacheStore(cache, fen(p), HeuristicSum(p)), FALSE)

\* Evaluator.evaluate with the cache looked up before the tests for mate,
\* stalemate and draw: a fault the idempotence of the evaluators rules out
evaluate_cache_first(cache, p) ==
    IF board_hash(p) \in DOMAIN cache
    THEN EvalResult(cache[board_hash(p)], cache, TRUE)
    ELSE IF is_checkmate(p)
    THEN EvalResult(IF p.pl.turn THEN -MATE_SCORE ELSE MATE_SCORE, cache, FALSE)
    ELSE IF is_stalemate(p)
    THEN EvalResult(STALEMATE_SCORE, cache, FALSE)
    ELSE IF can_claim_draw(p)
    THEN EvalResult(DRAW_SCORE, cache, FALSE)
    ELSE EvalResult(HeuristicSum(p),
                    CacheStore(cache, board_hash(p), HeuristicSum(p)), FALSE)

\* engine.py: Evaluator.evaluate
evaluate(cache, p) ==
    IF is_checkmate(p)
    THEN EvalResult(IF p.pl.turn THEN -MATE_SCORE ELSE MATE_SCORE, cache, FALSE)
    ELSE IF is_stalemate(p)
    THEN EvalResult(STALEMATE_SCORE, cache, FALSE)
    ELSE IF can_claim_draw(p)
    THEN EvalResult(DRAW_SCORE, cache, FALSE)
    ELSE IF board_hash(p) \in DOMAIN cache
    THEN EvalResult(cache[board_hash(p)], cache, TRUE)
    ELSE EvalResult(HeuristicSum(p),
                    CacheStore(cache, board_hash(p), HeuristicSum(p)), FALSE)

\* fast_evaluator.py: FastEvaluator.evaluate
fast_evaluate(cache, p) ==
    IF is_checkmate(p)
    THEN EvalResult(IF p.pl.turn THEN -MATE_SCORE ELSE MATE_SCORE, cache, FALSE)
    ELSE IF is_stalemate(p)
    THEN EvalResult(STALEMATE_SCORE, cache, FALSE)
    ELSE IF can_claim_draw(p)
    THEN EvalResult(DRAW_SCORE, cache, FALSE)
    ELSE IF board_key(p) \in DOMAIN cache
    THEN EvalResult(cache[board_key(p)], cache, TRUE)
    ELSE EvalResult(HeuristicSum(p),
                    CacheStore(cache, board_key(p), HeuristicSum(p)), FALSE)

----------------------------------------------------------------------------
(* The Board Adapter: games as trees of positions.                         *)
(*   chk   : the side to move is in check                                  *)
(*   draw  : "none", "rep" (repetition on the move stack) or "fifty"       *)
(*   h     : the evaluators' heuristic sum, for the side to move           *)
(*   kids  : the position after each legal move, in enumeration order      *)
(*   mv    : for each legal move [cap, ps]: board.is_capture(move) and the *)
(*           sum of the ordering terms that depend on the pieces involved  *)
(*           (piece, development, castling, rim, capture value, hanging)   *)
(* A "tail" is a quiet position with one legal, non-capturing move that    *)
(* leads to a position with the same attributes: play goes on below the    *)
(* explicit part of the tree.                                              *)

MoveAttr(cap, ps) == [cap |-> cap, ps |-> ps]

QuietMove == MoveAttr(FALSE, 0)

Node(chk, draw, h, kids, mv) ==
    [kind |-> "node", chk |-> chk, draw |-> draw, h |-> h, kids |-> kids, mv |-> mv]

Quiet(h, draw) ==
    [kind |-> "tail", chk |-> FALSE, draw |-> draw, h |-> h, kids |-> << >>, mv |-> << >>]

Checkmated == Node(TRUE, "none", 0, << >>, << >>)

Stalemated == Node(FALSE, "none", 0, << >>, << >>)

NumMoves(n) == IF n.kind = "tail" THEN 1 ELSE Len(n.kids)

\* the position after legal move i; move 0 is chess.Move.null(): the other
\* side is to move in the same placement, taken to be a quiet position
Kid(n, i) ==
    IF i = 0 THEN Quiet(-n.h, "none")
    ELSE IF n.kind = "tail" THEN n
    ELSE n.kids[i]

Attr(n, i) == IF n.kind = "tail" THEN QuietMove ELSE n.mv[i]

RECURSIVE NodeAt(_, _)
NodeAt(n, path) ==
    IF path = << >> THEN n ELSE NodeAt(Kid(n, Head(path)), Tail(path))

\* chess.Board: the game, the side to move at its start and the move stack
Board(game, turn, stack) == [game |-> game, turn |-> turn, stack |-> stack]

Here(b) == NodeAt(b.game, b.stack)

\* board.turn (True is White)
Turn(b) == IF Len(b.stack) % 2 = 0 THEN b.turn ELSE ~b.turn

\* list(board.legal_moves), as the indices of the moves
legal_moves(b) == [i \in 1..NumMoves(Here(b)) |-> i]

is_check(b) == Here(b).chk

is_capture(b, i) == Attr(Here(b), i).cap

\* board.push(move) and board.pop()
push(b, i) == [b EXCEPT !.stack = Append(@, i)]

pop(b) == [b EXCEPT !.stack = SubSeq(@, 1, Len(@) - 1)]

\* board.copy()
copy(b) == b

\* the position the evaluators and the terminal tests see on board b
Pos(b) ==
    LET n == Here(b)
    IN  Position(Placement(b.stack, Turn(b), n.chk, NumMoves(n), n.h),
                 IF n.draw = "fifty" THEN FIFTY_CLOCK ELSE 0,
                 n.draw = "rep")

----------------------------------------------------------------------------
(* Move ordering of engine.py.                                             *)

SCORE_CHECKMATE == -300000
SCORE_CHECK     == -20000
SCORE_DRAW      == -80000
KILLER_BOOST    == 15000

Scored(score, b) == [score |-> score, board |-> b]

\* engine.py: score_move; returns the score and the board it leaves
score_move(b, i) ==
    LET static == Attr(Here(b), i).ps
        b1     == push(b, i)
        p      == Pos(b1)
    IN  IF is_checkmate(p)
        THEN Scored(SCORE_CHECKMATE, pop(b1))
        ELSE Scored(static
                    + (IF is_check(b1) THEN SCORE_CHECK ELSE 0)
                    - (IF is_stalemate(p) \/ can_claim_draw(p) THEN SCORE_DRAW ELSE 0),
                    pop(b1))

\* scored.sort(key=...): stable, ascending; items are <<score, move>>
RECURSIVE InsertSorted(_, _)
InsertSorted(sorted, item) ==
    IF sorted = << >> THEN <<item>>
    ELSE IF sorted[Len(sorted)][1] <= item[1]
    THEN Append(sorted, item)
    ELSE Append(InsertSorted(SubSeq(sorted, 1, Len(sorted) - 1), item),
                sorted[Len(sorted)])

RECURSIVE SortScored(_, _)
SortScored(scored, k) ==
    IF k = 0 THEN << >> ELSE InsertSorted(SortScored(scored, k - 1), scored[k])

FAST_SCORE_DRAW == 80000

\* fast_move_order.py: ultra_score_move
ultra_score_move(b, i) ==
    LET static == Attr(Here(b), i).ps
        b1     == push(b, i)
        p      == Pos(b1)
    IN  IF is_checkmate(p)
        THEN Scored(SCORE_CHECKMATE, pop(b1))
        ELSE Scored(static
                    + (IF is_check(b1) THEN SCORE_CHECK ELSE 0)
                    - (IF is_stalemate(p) \/ can_claim_draw(p)
                       THEN FAST_SCORE_DRAW ELSE 0),
                    pop(b1))

\* scored = [(score(board, m), m) for m in moves]; acc holds the list so far
\* and the board as the scoring of the moves before left it
Ordered(moves, b) == [moves |-> moves, board |-> b]

ScoredNext(acc, k, r) ==
    [scored |-> Append(acc.scored, <<r.score, k>>), board |-> r.board]

RECURSIVE ScoreAll(_, _, _)
ScoreAll(acc, k, fast) ==
    IF k > NumMoves(Here(acc.board)) THEN acc
    ELSE ScoreAll(ScoredNext(acc, k, IF fast THEN ultra_score_move(acc.board, k)
                                     ELSE score_move(acc.board, k)),
                  k + 1, fast)

Boost(scored, killer) ==
    [k \in DOMAIN scored |->
        IF killer # None /\ scored[k][2] = killer
        THEN <<scored[k][1] - KILLER_BOOST, scored[k][2]>>
        ELSE scored[k]]

MovesOf(sorted) == [k \in DOMAIN sorted |-> sorted[k][2]]

\* scored.sort(key=lambda x: x[0]); return [m for _, m in scored]
SortedMoves(all, k1, k2) ==
    Ordered(MovesOf(SortScored(Boost(Boost(all.scored, k1), k2), Len(all.scored))),
            all.board)

\* engine.py: order_moves(board, killer)
order_moves(b, killer) ==
    SortedMoves(ScoreAll([scored |-> << >>, board |-> b], 1, FALSE), killer, None)

\* fast_move_order.py: ultra_order_moves(board, (k1, k2))
ultra_order_moves(b, k1, k2) ==
    SortedMoves(ScoreAll([scored |-> << >>, board |-> b], 1, TRUE), k1, k2)

\* ordered[:n]
Prefix(seq, n) == SubSeq(seq, 1, IF n < Len(seq) THEN n ELSE Len(seq))

Max(a, b) == IF a >= b THEN a ELSE b

Min(a, b) == IF a <= b THEN a ELSE b

----------------------------------------------------------------------------
(* What a search threads through its recursion:                            *)
(*   board  : the board it pushes and pops                                 *)
(*   cache  : the evaluator's _cache                                       *)
(*   polls  : how often the clock was read since start_time was set        *)
(*   budget : the first poll (counted from 0) that finds max_time used up, *)
(*            or Unlimited                                                 *)
(*   evals  : calls of the evaluator so far                                *)
(*   nodes  : search nodes entered so far                                  *)
(*   tt     : the transposition table of the search                        *)
(*   killer0: FastWorstSearch.killers[0], the only entry ever assigned     *)
(*   old    : the keys of tt whose entries were written by an earlier call *)
(*   max_tt, max_table_size : the bound of the search's table              *)
(*   obs    : what is observed of the search, see NoObs                    *)

\* blind : nodes entered without a reading of the clock
\* late  : those of them entered when the clock, had it been read, would
\*         have shown the budget used up
\* shallow : table hits returned although the entry was stored by a search
\*           of the position to a smaller depth than the node requires
\* stale   : table hits on entries written by an earlier top-level call
\* mated   : table entries stored with a score within MaxPly of a mate bound
\* over    : insertions that left a table above its bound, or that found it
\*           at its bound and left more than the new entry
\* clears  : transposition-table insertions that found the table at its bound
\* flushes : evaluation-cache insertions that found the cache at its bound
\* stores  : the transposition-table insertions made, in order
\* unsearched : moves WorstMoveSearch._negamax left unsearched, by the
\*           futility "continue" or the "break", while alpha < beta
\* baddepth : calls of WorstMoveSearch._negamax with a depth that is negative
\*           or not below the caller's
\* descents : the kinds of call of _negamax made: "root" by a root worker,
\*           "null" after the null move, "lmr" late-move reduced, "iir"
\*           after the internal iterative reduction, "child" otherwise
\* placeholder : move loops of WorstMoveSearch._negamax that ended with
\*           value still float("inf")
\* quiet   : moves pushed inside quiescence search that are not captures
\* leaked  : root workers whose _negamax frame was left with the worker's
\*           board not as it was at frame entry
NoObs == [blind |-> 0, late |-> 0, shallow |-> 0, stale |-> 0, mated |-> 0,
          over |-> 0, clears |-> 0, flushes |-> 0, stores |-> << >>,
          leaked |-> 0, quiet |-> 0, unsearched |-> 0, baddepth |-> 0,
          descents |-> {}, placeholder |-> 0]

\* the insertion that made table "after" of table "before" broke bound max
Overfull(before, after, max) ==
    \/ Cardinality(DOMAIN after) > max
    \/ Cardinality(DOMAIN before) >= max /\ Cardinality(DOMAIN after) # 1

MaxPly == 16          \* no search of the model goes deeper than this

\* val is a mate score of the search, at most MaxPly plies away: mates is
\* the set of scores the search gives to a checkmated mover, sign dropped
IsMateScore(val, mates) ==
    \E m \in mates : val \in (m - MaxPly)..m \/ -val \in (m - MaxPly)..m

\* st after a table store of val, observed
MateObserved(st, val, mates) ==
    [st EXCEPT !.obs.mated = @ + (IF IsMateScore(val, mates) THEN 1 ELSE 0)]

Start(b, cache, budget) ==
    [board |-> b, cache |-> cache, polls |-> 0, budget |-> budget,
     evals |-> 0, nodes |-> 0, tt |-> EmptyDict, killer0 |-> None,
     old |-> {}, max_tt |-> max_tt, max_table_size |-> max_table_size,
     obs |-> NoObs]

\* time.time() - self.start_time >= self.max_time, at the poll st makes next
Expired(st) == st.budget # Unlimited /\ st.polls >= st.budget

Polled(st) == [st EXCEPT !.polls = @ + 1]

Pushed(st, i) == [st EXCEPT !.board = push(@, i)]

Popped(st) == [st EXCEPT !.board = pop(@)]

\* board.push(move) inside a quiescence search
QPushed(st, i) ==
    [Pushed(st, i) EXCEPT !.obs.quiet = @ + (IF is_capture(st.board, i) THEN 0 ELSE 1)]

Entered(st) == [st EXCEPT !.nodes = @ + 1]

\* a node entered by a routine that does not read the clock
EnteredUnchecked(st) ==
    [st EXCEPT !.nodes = @ + 1, !.obs.blind = @ + 1,
               !.obs.late = @ + (IF Expired(st) THEN 1 ELSE 0)]

Val(val, st) == [val |-> val, st |-> st]

\* a call of the evaluator inside a search: r is what the evaluator returned
EvaluatedAs(st, r) ==
    Val(r.score,
        [st EXCEPT !.cache = r.cache, !.evals = @ + 1,
                   !.obs.over = @ + (IF r.cache # st.cache
                                        /\ Overfull(st.cache, r.cache, MaxCacheSize)
                                     THEN 1 ELSE 0),
                   !.obs.flushes = @ + (IF r.cache # st.cache
                                           /\ Cardinality(DOMAIN st.cache) >= MaxCacheSize
                                        THEN 1 ELSE 0)])

\* self.evaluator.evaluate(board) of engine.py inside a search
Evaluated(st) == EvaluatedAs(st, evaluate(st.cache, Pos(st.board)))

\* what get_worst_move / search hand back, with the evaluated root moves
\* <<move, score>> in the order of evaluation
Outcome(move, score, st, evaluated, by) ==
    [move |-> move, score |-> score, st |-> st, evaluated |-> evaluated, by |-> by]

\* the scan for an immediate mate left out: a fault the mate-in-one priority
\* of the engines rules out
MateScan_skipped(b, ordered, k) == [move |-> None, board |-> b]

\* the scan returning the mating move without "board.pop()": a fault the
\* restoring of the caller's board rules out
RECURSIVE MateScan_unpopped(_, _, _)
MateScan_unpopped(b, ordered, k) ==
    IF k > Len(ordered) THEN [move |-> None, board |-> b]
    ELSE IF is_checkmate(Pos(push(b, ordered[k])))
    THEN [move |-> ordered[k], board |-> push(b, ordered[k])]
    ELSE MateScan_unpopped(pop(push(b, ordered[k])), ordered, k + 1)

\* "for move in ordered: push; if is_checkmate: pop; return move; pop"
RECURSIVE MateScan(_, _, _)
MateScan(b, ordered, k) ==
    IF k > Len(ordered) THEN [move |-> None, board |-> b]
    ELSE IF is_checkmate(Pos(push(b, ordered[k])))
    THEN [move |-> ordered[k], board |-> pop(push(b, ordered[k]))]
    ELSE MateScan(pop(push(b, ordered[k])), ordered, k + 1)

\* the body of a root loop once the move is scored and popped: r is the
\* value the scoring returned with the state it left, sign is -1 where the
\* code negates it; "if score < best_score: best_score, best_move = score, move"
RootScored(acc, move, r, sign) ==
    [move      |-> IF sign * r.val < acc.score THEN move ELSE acc.move,
     score     |-> IF sign * r.val < acc.score THEN sign * r.val ELSE acc.score,
     st        |-> Popped(r.st),
     evaluated |-> Append(acc.evaluated, <<move, sign * r.val>>),
     by        |-> acc.by]

\* the body of an inner loop once the move is searched and popped:
\* "score = -search(...); board.pop(); if score > best: best = score"
Better(best, r) == Val(IF -r.val > best THEN -r.val ELSE best, Popped(r.st))

GREEDY_TOP == 12

\* engine.py: GreedyEngine.get_worst_move, the loop over ordered[:12]
RECURSIVE GreedyLoop(_, _, _)
GreedyLoop(acc, cand, k) ==
    IF k > Len(cand) THEN acc
    ELSE GreedyLoop(RootScored(acc, cand[k], Evaluated(Pushed(acc.st, cand[k])), 1),
                    cand, k + 1)

\* GreedyEngine.get_worst_move after the mate scan
Greedy_scanned(st, ordered, scan) ==
    IF scan.move # None
    THEN Outcome(scan.move, 0, [st EXCEPT !.board = scan.board], << >>, "mate")
    ELSE GreedyLoop(Outcome(ordered[1], Inf, [st EXCEPT !.board = scan.board],
                            << >>, "eval"),
                    Prefix(ordered, GREEDY_TOP), 1)

\* GreedyEngine.get_worst_move after order_moves
Greedy_ordered(st, o) == Greedy_scanned(st, o.moves, MateScan(o.board, o.moves, 1))

\* engine.py: GreedyEngine.get_worst_move
Greedy_get_worst_move(st) ==
    IF Len(legal_moves(st.board)) = 0 THEN Outcome(None, 0, st, << >>, "none")
    ELSE IF Len(legal_moves(st.board)) = 1
    THEN Outcome(legal_moves(st.board)[1], 0, st, << >>, "single")
    ELSE Greedy_ordered(st, order_moves(st.board, None))

\* "if self._is_timeout(): break" of _search leaving the loop with best
Broken(st, best) ==
    [st EXCEPT !.obs.placeholder = @ + (IF best = -Big THEN 1 ELSE 0)]

\* engine.py: SearchEngine._search
RECURSIVE SE_search(_, _, _)
RECURSIVE SE_search_loop(_, _, _, _, _)
SE_search_ordered(st, o, depth, selfdepth) ==
    SE_search_loop(Val(-Big, [st EXCEPT !.board = o.board]),
                   Prefix(o.moves, Max(2, 5 - (selfdepth - depth))), 1,
                   depth, selfdepth)

SE_search(st, depth, selfdepth) ==
    IF Expired(st) \/ depth <= 0 THEN Evaluated(Entered(Polled(st)))
    ELSE IF Len(legal_moves(st.board)) = 0
    THEN Val(IF is_check(st.board) THEN -MATE_SCORE ELSE DRAW_SCORE,
             Entered(Polled(st)))
    ELSE SE_search_ordered(Entered(Polled(st)), order_moves(st.board, None),
                           depth, selfdepth)

\* the loop "for move in ordered[:num_moves]" of _search; acc is best and state
SE_search_loop(acc, cand, k, depth, selfdepth) ==
    IF k > Len(cand) THEN acc
    ELSE IF Expired(acc.st) THEN Val(acc.val, Broken(Polled(acc.st), acc.val))
    ELSE SE_search_loop(Better(acc.val,
                               SE_search(Pushed(Polled(acc.st), cand[k]),
                                         depth - 1, selfdepth)),
                        cand, k + 1, depth, selfdepth)

\* engine.py: SearchEngine.get_worst_move, the loop over ordered[:num_moves]
RECURSIVE SE_root_loop(_, _, _, _)
SE_root_loop(acc, cand, k, selfdepth) ==
    IF k > Len(cand) THEN acc
    ELSE IF Expired(acc.st) THEN [acc EXCEPT !.st = Polled(@)]
    ELSE SE_root_loop(RootScored(acc, cand[k],
                                 SE_search(Pushed(Polled(acc.st), cand[k]),
                                           selfdepth - 1, selfdepth),
                                 -1),
                      cand, k + 1, selfdepth)

SE_DEPTH_CAP == 5

\* SearchEngine.get_worst_move after the mate scan
SE_scanned(st, ordered, scan, selfdepth) ==
    IF scan.move # None
    THEN Outcome(scan.move, 0, [st EXCEPT !.board = scan.board], << >>, "mate")
    ELSE SE_root_loop(Outcome(ordered[1], Inf, [st EXCEPT !.board = scan.board],
                              << >>, "search"),
                      Prefix(ordered, Max(4, 8 - selfdepth)), 1, selfdepth)

\* SearchEngine.get_worst_move after order_moves
SE_ordered(st, o, selfdepth) ==
    SE_scanned(st, o.moves, MateScan(o.board, o.moves, 1), selfdepth)

\* engine.py: SearchEngine.__init__ (self.depth = min(depth, 5)) and
\* SearchEngine.get_worst_move
SE_get_worst_move(st, depth) ==
    IF Len(legal_moves(st.board)) = 0 THEN Outcome(None, 0, st, << >>, "none")
    ELSE IF Len(legal_moves(st.board)) = 1
    THEN Outcome(legal_moves(st.board)[1], 0, st, << >>, "single")
    ELSE SE_ordered(st, order_moves(st.board, None), Min(depth, SE_DEPTH_CAP))

----------------------------------------------------------------------------
(* greedy_engine.py and fast_search.py.                                    *)

\* self.evaluator.evaluate(board) of fast_evaluator.py inside a search
FastEvaluated(st) == EvaluatedAs(st, fast_evaluate(st.cache, Pos(st.board)))

\* greedy_engine.py: GreedyWorstEngine.get_worst_move, the loop over ordered[:12]
RECURSIVE GreedyWorstLoop(_, _, _)
GreedyWorstLoop(acc, cand, k) ==
    IF k > Len(cand) THEN acc
    ELSE GreedyWorstLoop(RootScored(acc, cand[k],
                                    FastEvaluated(Pushed(acc.st, cand[k])), 1),
                         cand, k + 1)

\* GreedyWorstEngine.get_worst_move after the mate scan
GreedyWorst_scanned(st, ordered, scan) ==
    IF scan.move # None
    THEN Outcome(scan.move, 0, [st EXCEPT !.board = scan.board], << >>, "mate")
    ELSE GreedyWorstLoop(Outcome(ordered[1], Inf, [st EXCEPT !.board = scan.board],
                                 << >>, "eval"),
                         Prefix(ordered, GREEDY_TOP), 1)

\* GreedyWorstEngine.get_worst_move after ultra_order_moves
GreedyWorst_ordered(st, o) ==
    GreedyWorst_scanned(st, o.moves, MateScan(o.board, o.moves, 1))

\* greedy_engine.py: GreedyWorstEngine.get_worst_move
GreedyWorst_get_worst_move(st) ==
    IF Len(legal_moves(st.board)) = 0 THEN Outcome(None, 0, st, << >>, "none")
    ELSE IF Len(legal_moves(st.board)) = 1
    THEN Outcome(legal_moves(st.board)[1], 0, st, << >>, "single")
    ELSE GreedyWorst_ordered(st, ultra_order_moves(st.board, None, None))

HYBRID_TOP == 8
HYBRID_REPLIES == 5

\* greedy_engine.py: HybridWorstEngine._eval_depth
RECURSIVE eval_depth(_, _)
RECURSIVE eval_depth_loop(_, _, _, _)
eval_depth_ordered(st, o, depth) ==
    eval_depth_loop(Val(-Big, [st EXCEPT !.board = o.board]),
                    Prefix(o.moves, HYBRID_REPLIES), 1, depth)

eval_depth(st, depth) ==
    IF depth <= 0 THEN FastEvaluated(Entered(st))
    ELSE IF Len(legal_moves(st.board)) = 0
    THEN Val(IF is_check(st.board) THEN -MATE_SCORE ELSE DRAW_SCORE, Entered(st))
    ELSE eval_depth_ordered(Entered(st), ultra_order_moves(st.board, None, None),
                            depth)

\* the loop "for move in ordered[:5]" of _eval_depth; acc is best and state
eval_depth_loop(acc, cand, k, depth) ==
    IF k > Len(cand) THEN acc
    ELSE eval_depth_loop(Better(acc.val,
                                eval_depth(Pushed(acc.st, cand[k]), depth - 1)),
                         cand, k + 1, depth)

\* greedy_engine.py: HybridWorstEngine.get_worst_move, the loop over ordered[:8]
RECURSIVE HybridLoop(_, _, _)
HybridLoop(acc, cand, k) ==
    IF k > Len(cand) THEN acc
    ELSE HybridLoop(RootScored(acc, cand[k],
                               eval_depth(Pushed(acc.st, cand[k]), 1), -1),
                    cand, k + 1)

\* HybridWorstEngine.get_worst_move after the mate scan
Hybrid_scanned(st, ordered, scan) ==
    IF scan.move # None
    THEN Outcome(scan.move, 0, [st EXCEPT !.board = scan.board], << >>, "mate")
    ELSE HybridLoop(Outcome(ordered[1], Inf, [st EXCEPT !.board = scan.board],
                            << >>, "search"),
                    Prefix(ordered, HYBRID_TOP), 1)

\* HybridWorstEngine.get_worst_move after ultra_order_moves
Hybrid_ordered(st, o) == Hybrid_scanned(st, o.moves, MateScan(o.board, o.moves, 1))

\* greedy_engine.py: HybridWorstEngine.get_worst_move
Hybrid_get_worst_move(st) ==
    IF Len(legal_moves(st.board)) = 0 THEN Outcome(None, 0, st, << >>, "none")
    ELSE IF Len(legal_moves(st.board)) = 1
    THEN Outcome(legal_moves(st.board)[1], 0, st, << >>, "single")
    ELSE Hybrid_ordered(st, ultra_order_moves(st.board, None, None))

\* TTStore evicting one entry where the code clears the table
TTStore_evicting(tt, key, entry, max) ==
    IF Cardinality(DOMAIN tt) >= max
    THEN DictPut([x \in (DOMAIN tt) \ {CHOOSE y \in DOMAIN tt : TRUE} |-> tt[x]],
                 key, entry)
    ELSE DictPut(tt, key, entry)

\* "if len(self.tt) >= self.max_tt: self.tt.clear()" then "self.tt[key] = ..."
TTStore(tt, key, entry, max) ==
    IF Cardinality(DOMAIN tt) >= max
    THEN DictPut(EmptyDict, key, entry)
    ELSE DictPut(tt, key, entry)

\* a table entry stored at depth "stored" is returned at a node that
\* requires depth "required"
TTHit(st, key, stored, required) ==
    [st EXCEPT !.obs.shallow = @ + (IF stored < required THEN 1 ELSE 0),
               !.obs.stale = @ + (IF key \in st.old THEN 1 ELSE 0)]

\* the state after "self.tt[key] = entry", table clearing included
TTStored(st, key, entry, max) ==
    [st EXCEPT !.tt = TTStore(@, key, entry, max),
               !.old = IF Cardinality(DOMAIN st.tt) >= max THEN {} ELSE @ \ {key},
               !.obs.over = @ + (IF Overfull(st.tt, TTStore(st.tt, key, entry, max), max)
                                 THEN 1 ELSE 0),
               !.obs.clears = @ + (IF Cardinality(DOMAIN st.tt) >= max THEN 1 ELSE 0),
               !.obs.stores = Append(@, [key |-> key, entry |-> entry])]

\* board.generate_legal_captures()
legal_captures(b) == SelectSeq(legal_moves(b), LAMBDA m : is_capture(b, m))

\* fast_search.py: FastWorstSearch._qsearch
RECURSIVE qsearch(_, _)
RECURSIVE qsearch_loop(_, _, _, _)
qsearch(st, ply) ==
    IF is_check(st.board)
    THEN IF Len(legal_moves(st.board)) = 0 THEN Val(-MATE_SCORE + ply, EnteredUnchecked(st))
         ELSE qsearch_loop(Val(-Big, EnteredUnchecked(st)), legal_moves(st.board), 1, ply)
    ELSE qsearch_loop(FastEvaluated(EnteredUnchecked(st)), legal_captures(st.board), 1, ply)

\* the loops of _qsearch; acc is best (or stand) and the state
qsearch_loop(acc, cand, k, ply) ==
    IF k > Len(cand) THEN acc
    ELSE qsearch_loop(Better(acc.val, qsearch(QPushed(acc.st, cand[k]), ply + 1)),
                      cand, k + 1, ply)

\* "self.tt[key] = (best, depth); return best"
fast_stored(r, key, depth) ==
    Val(r.val, MateObserved(TTStored(r.st, key, <<r.val, depth>>, r.st.max_tt),
                            r.val, {MATE_SCORE}))

\* fast_search.py: FastWorstSearch._negamax; self.killers[ply] is None for
\* every ply >= 1, the only assignment being to self.killers[0]
RECURSIVE fast_negamax(_, _, _)
RECURSIVE fast_negamax_loop(_, _, _, _, _)
fast_negamax_ordered(st, o, depth, ply) ==
    fast_negamax_loop(Val(-Big, [st EXCEPT !.board = o.board]), o.moves, 1,
                      depth, ply)

fast_negamax(st, depth, ply) ==
    IF depth <= 0 THEN qsearch(st, ply)
    ELSE IF board_key(Pos(st.board)) \in DOMAIN st.tt
            /\ st.tt[board_key(Pos(st.board))][2] >= depth
    THEN Val(st.tt[board_key(Pos(st.board))][1],
             TTHit(EnteredUnchecked(st), board_key(Pos(st.board)),
                   st.tt[board_key(Pos(st.board))][2], depth))
    ELSE IF Len(legal_moves(st.board)) = 0
    THEN Val(IF is_check(st.board) THEN -MATE_SCORE + ply ELSE DRAW_SCORE,
             EnteredUnchecked(st))
    ELSE fast_stored(fast_negamax_ordered(EnteredUnchecked(st),
                                          ultra_order_moves(st.board, None, None),
                                          depth, ply),
                     board_key(Pos(st.board)), depth)

\* the loop "for move in ordered" of _negamax; acc is best and the state
fast_negamax_loop(acc, cand, k, depth, ply) ==
    IF k > Len(cand) THEN acc
    ELSE fast_negamax_loop(Better(acc.val,
                                  fast_negamax(Pushed(acc.st, cand[k]),
                                               depth - 1, ply + 1)),
                           cand, k + 1, depth, ply)

\* "if score < best_score: ...; self.killers[0] = move": new is the loop's
\* state after the comparison, best_score the best before it
KillerSet(new, best_score, move) ==
    IF new.score < best_score THEN [new EXCEPT !.st.killer0 = move] ELSE new

\* fast_search.py: FastWorstSearch._root, the loop over the ordered moves
RECURSIVE fast_root_loop(_, _, _, _)
fast_root_loop(acc, cand, k, depth) ==
    IF k > Len(cand) THEN acc
    ELSE IF Expired(acc.st) THEN [acc EXCEPT !.st = Polled(@)]
    ELSE fast_root_loop(
             KillerSet(RootScored(acc, cand[k],
                                  fast_negamax(Pushed(Polled(acc.st), cand[k]),
                                               depth - 1, 1),
                                  -1),
                       acc.score, cand[k]),
             cand, k + 1, depth)

\* _root after ultra_order_moves
fast_root_ordered(st, o, depth) ==
    fast_root_loop(Outcome(None, Inf, [st EXCEPT !.board = o.board], << >>, "search"),
                   o.moves, 1, depth)

\* fast_search.py: FastWorstSearch._root
fast_root(st, depth) ==
    fast_root_ordered(st, ultra_order_moves(st.board, st.killer0, None), depth)

\* "move, score = self._root(board, d); if move: best_move, best_score = ..."
\* iters collects what each _root call returned
Deepened(acc, r) ==
    [move  |-> IF r.move # None THEN r.move ELSE acc.move,
     score |-> IF r.move # None THEN r.score ELSE acc.score,
     st    |-> r.st,
     iters |-> Append(acc.iters, [move |-> r.move, score |-> r.score,
                                  evaluated |-> r.evaluated])]

\* fast_search.py: FastWorstSearch.search, the loop "for d in range(1, depth + 1)"
RECURSIVE fast_deepen(_, _, _)
fast_deepen(acc, d, depth) ==
    IF d > depth THEN acc
    ELSE IF Expired(acc.st) THEN [acc EXCEPT !.st = Polled(@)]
    ELSE fast_deepen(Deepened(acc, fast_root(Polled(acc.st), d)), d + 1, depth)

\* "return moves[0], self.evaluator.evaluate(board)"
fast_single(move, e) == [move |-> move, score |-> e.val, st |-> e.st, iters |-> << >>]

\* fast_search.py: FastWorstSearch.search
fast_search(st, depth) ==
    IF Len(legal_moves(st.board)) = 0
    THEN [move |-> None, score |-> 0, st |-> st, iters |-> << >>]
    ELSE IF Len(legal_moves(st.board)) = 1
    THEN fast_single(legal_moves(st.board)[1], FastEvaluated(st))
    ELSE fast_deepen([move |-> legal_moves(st.board)[1], score |-> Inf,
                      st |-> [st EXCEPT !.tt = EmptyDict, !.old = {},
                                        !.killer0 = None, !.polls = 0],
                      iters |-> << >>],
                     1, depth)

----------------------------------------------------------------------------
(* search.py: WorstMoveSearch.  A call that raises returns exc = TRUE; the *)
(* exception is TimeoutError, the only one the model raises inside the     *)
(* search.                                                                 *)

\* the reduction one ply deeper
null_move_R_deep == 2 + 1

null_move_R == 2
lmr_threshold == 4
futility_margin == 100
razoring_margin == 300
QUEEN_DELTA == 9
W_MATE == 10000

\* self.futility_margins = [0, 100, 200, 300], indexed by depth
futility_margins(depth) == 100 * depth

WVal(val, exc, st) == [val |-> val, exc |-> exc, st |-> st]

\* a frame of depth d calls _negamax with depth d2
Descended(st, d, d2, kind) ==
    [st EXCEPT !.obs.baddepth = @ + (IF 0 <= d2 /\ d2 < d THEN 0 ELSE 1),
               !.obs.descents = @ \cup {kind}]

\* "return self._quiescence(board, alpha, beta)" in _negamax
Returned_q(q) == WVal(q.val, FALSE, q.st)

\* self.evaluator.evaluate_position(board) inside the search
PosEvaluated(st) == EvaluatedAs(st, evaluate_position(st.cache, Pos(st.board)))

\* search.py: WorstMoveSearch._get_captures
get_captures(b) == SelectSeq(legal_moves(b), LAMBDA m : is_capture(b, m))

\* search.py: WorstMoveSearch._get_moves_ordered (no ordering is implemented)
get_moves_ordered(b) == legal_moves(b)

\* search.py: WorstMoveSearch._quiescence
RECURSIVE quiescence(_, _, _)
RECURSIVE quiescence_loop(_, _, _, _)
RECURSIVE quiescence_next(_, _, _, _, _)
\* _quiescence once stand_pat = e.val is evaluated
quiescence_stand(e, alpha, beta) ==
    IF e.val >= beta THEN Val(beta, e.st)
    ELSE IF e.val - QUEEN_DELTA >= beta THEN Val(beta, e.st)
    ELSE quiescence_loop(Val(IF alpha < e.val THEN e.val ELSE alpha, e.st),
                         get_captures(e.st.board), 1, beta)

\* st is the state at a node already entered: by _negamax, which read the
\* clock there, or by the capture loop below, which does not
quiescence(st, alpha, beta) ==
    quiescence_stand(PosEvaluated(st), alpha, beta)

\* the loop "for move in self._get_captures(board)"; acc is alpha and state
quiescence_loop(acc, caps, k, beta) ==
    IF k > Len(caps) THEN acc
    ELSE quiescence_next(acc.val,
                         quiescence(EnteredUnchecked(QPushed(acc.st, caps[k])),
                                    -beta, -acc.val),
                         caps, k, beta)

\* the loop body after "score = -self._quiescence(...); board.pop()"
quiescence_next(alpha, r, caps, k, beta) ==
    IF -r.val >= beta THEN Val(beta, Popped(r.st))
    ELSE quiescence_loop(Better(alpha, r), caps, k + 1, beta)

\* search.py: WorstMoveSearch._negamax, in the order of its statements
RECURSIVE negamax(_, _, _, _, _)
RECURSIVE negamax_moves(_, _, _, _, _, _, _, _)
RECURSIVE negamax_moved(_, _, _, _, _, _, _, _)
RECURSIVE negamax_null(_, _, _, _, _, _)

\* "self.transposition_table[key] = value; return value"; the table holds
\* the value only: the depth the node was searched to is kept beside it to
\* tell what a later hit returns
negamax_stored(r, key, depth) ==
    IF r.exc THEN r
    ELSE WVal(r.val, FALSE,
              MateObserved(TTStored(r.st, key, [val |-> r.val, depth |-> depth],
                                    r.st.max_table_size),
                           r.val, {W_MATE, MATE_SCORE}))

\* internal iterative reduction (the key is not in the table here), the
\* test for no moves, the move loop and the store
negamax_body(st, key, depth, alpha, beta) ==
    IF Len(get_moves_ordered(st.board)) = 0
    THEN WVal(IF is_check(st.board) THEN -W_MATE ELSE 0, FALSE, st)
    ELSE negamax_stored(negamax_moves(st, get_moves_ordered(st.board), 1, depth,
                                      IF depth >= 4 THEN depth - 1 ELSE depth,
                                      alpha, beta, Inf),
                        key, depth)

\* after the null-move search returned r: "board.pop(); if value >= beta"
negamax_nulled(r, key, depth, alpha, beta) ==
    IF r.exc THEN r
    ELSE IF -r.val >= beta THEN WVal(beta, FALSE, Popped(r.st))
    ELSE negamax_body(Popped(r.st), key, depth, alpha, beta)

\* null move pruning
negamax_null(st, key, depth, alpha, beta, can_null) ==
    IF can_null /\ depth >= 3 /\ ~is_check(st.board)
    THEN negamax_nulled(negamax(Descended(Pushed(st, 0), depth,
                                          depth - null_move_R - 1, "null"),
                                depth - null_move_R - 1, -beta, -alpha, FALSE),
                        key, depth, alpha, beta)
    ELSE negamax_body(st, key, depth, alpha, beta)

\* reverse futility pruning, e2 being the second evaluation of the position
negamax_futile(e2, key, depth, alpha, beta, can_null) ==
    IF e2.val - futility_margins(depth) >= beta THEN WVal(beta, FALSE, e2.st)
    ELSE negamax_null(e2.st, key, depth, alpha, beta, can_null)

\* razoring, e1 being the first evaluation of the position
negamax_razor(e1, key, depth, alpha, beta, can_null) ==
    IF e1.val + razoring_margin * depth <= alpha
    THEN Returned_q(quiescence(e1.st, alpha, beta))
    ELSE negamax_futile(PosEvaluated(e1.st), key, depth, alpha, beta, can_null)

negamax(st, depth, alpha, beta, can_null) ==
    IF Expired(st) THEN WVal(0, TRUE, Entered(Polled(st)))          \* _check_time
    ELSE IF fen(Pos(st.board)) \in DOMAIN st.tt
    THEN WVal(st.tt[fen(Pos(st.board))].val, FALSE,
              TTHit(Entered(Polled(st)), fen(Pos(st.board)),
                    st.tt[fen(Pos(st.board))].depth, depth))
    ELSE IF depth = 0
    THEN Returned_q(quiescence(Entered(Polled(st)), alpha, beta))
    ELSE IF depth <= 3 /\ ~is_check(st.board)
    THEN negamax_razor(PosEvaluated(Entered(Polled(st))), fen(Pos(st.board)),
                       depth, alpha, beta, can_null)
    ELSE negamax_null(Entered(Polled(st)), fen(Pos(st.board)),
                      depth, alpha, beta, can_null)

\* n moves are left unsearched under the window (alpha, beta)
Unsearched(st, n, alpha, beta) ==
    [st EXCEPT !.obs.unsearched = @ + (IF alpha < beta THEN n ELSE 0)]

\* the loop "for i, move in enumerate(moves)" (k = i + 1)
\* depth0 is the depth the frame was called with, depth the one its loop runs at
negamax_moves(st, moves, k, depth0, depth, alpha, beta, value) ==
    IF k > Len(moves)
    THEN WVal(value, FALSE,
              [st EXCEPT !.obs.placeholder = @ + (IF value = Inf THEN 1 ELSE 0)])
    ELSE IF depth <= 2 /\ ~is_check(st.board) /\ value > -futility_margin
    THEN negamax_moves(Unsearched(st, 1, alpha, beta), moves, k + 1, depth0,
                       depth, alpha, beta, value)
    ELSE IF k - 1 >= lmr_threshold /\ depth >= 3
            /\ ~is_check(push(st.board, moves[k]))
    THEN negamax_moved(negamax(Descended(Pushed(st, moves[k]), depth0, depth - 2,
                                         "lmr"),
                               depth - 2, -beta, -alpha, TRUE),
                       moves, k, depth0, depth, alpha, beta, value)
    ELSE negamax_moved(negamax(Descended(Pushed(st, moves[k]), depth0, depth - 1,
                                         IF depth < depth0 THEN "iir" ELSE "child"),
                               depth - 1, -beta, -alpha, TRUE),
                       moves, k, depth0, depth, alpha, beta, value)

\* the loop body after "curr_value = -self._negamax(...)" returned r
negamax_moved(r, moves, k, depth0, depth, alpha, beta, value) ==
    IF r.exc THEN r
    ELSE IF Min(alpha, Min(value, -r.val)) <= beta
    THEN WVal(Min(value, -r.val), FALSE,
              Popped(Unsearched(r.st, Len(moves) - k,
                                Min(alpha, Min(value, -r.val)), beta)))
    ELSE negamax_moves(Popped(r.st), moves, k + 1, depth0, depth,
                       Min(alpha, Min(value, -r.val)), beta, Min(value, -r.val))

\* "try: results.append(f.result()) except Exception: results.append(inf)";
\* the worker's board, clock and budget are its own
Joined(acc, r) ==
    [st      |-> [r.st EXCEPT !.board = acc.st.board, !.polls = acc.st.polls,
                              !.budget = acc.st.budget,
                              !.obs.leaked = @ + (IF r.st.board = push(copy(acc.st.board),
                                                                       Len(acc.results) + 1)
                                                  THEN 0 ELSE 1)],
     results |-> Append(acc.results, IF r.exc THEN Inf ELSE r.val),
     late    |-> Append(acc.late, r.exc)]

\* search.py: WorstMoveSearch._negamax_root, one worker after the other in
\* the order of submission; worker k works on board.copy() with the move
\* pushed, and wb[k] is the number of its clock polls that find time left.
\* In a tree of positions the workers' keys into the shared table differ.
RECURSIVE root_workers(_, _, _, _)
root_workers(acc, k, depth, wb) ==
    IF k > Len(legal_moves(acc.st.board)) THEN acc
    ELSE root_workers(
             Joined(acc, negamax(Descended([acc.st EXCEPT !.board = push(copy(@), k),
                                                          !.polls = 0, !.budget = wb[k]],
                                           depth, depth - 1, "root"),
                                 depth - 1, -Inf, Inf, TRUE)),
             k + 1, depth, wb)

\* min(results)
RECURSIVE MinOf(_, _)
MinOf(seq, k) == IF k = 1 THEN seq[1] ELSE Min(MinOf(seq, k - 1), seq[k])

\* results.index(v) + 1
IndexOf(seq, v) == CHOOSE i \in DOMAIN seq : seq[i] = v /\ \A j \in 1..(i - 1) : seq[j] # v

\* "worst_score = min(results); worst_move = legal_moves[results.index(...)]"
root_result(st, r) ==
    [move |-> legal_moves(st.board)[IndexOf(r.results, MinOf(r.results, Len(r.results)))],
     value |-> -MinOf(r.results, Len(r.results)), st |-> r.st,
     results |-> r.results, late |-> r.late]

negamax_root(st, depth, wb) ==
    IF Len(legal_moves(st.board)) = 0
    THEN [move |-> None, value |-> 0, st |-> st, results |-> << >>, late |-> << >>]
    ELSE root_result(st, root_workers([st |-> st, results |-> << >>, late |-> << >>],
                                      1, depth, wb))

\* When the clock runs out: never (at = Unlimited), before the first poll
\* (at = 0), or during iteration "at" of iterative deepening, after the poll
\* that starts it; wb then gives each worker of that iteration its polls.
Schedule(at, wb) == [at |-> at, wb |-> wb]

AllFinish(n) == [i \in 1..n |-> Unlimited]

\* "move, value = self._negamax_root(board, depth); self.best_move = move;
\* self.best_value = value"; iters collects what each _negamax_root returned
Iterated(acc, r) ==
    [move |-> r.move, value |-> r.value, st |-> r.st,
     iters |-> Append(acc.iters, [move |-> r.move, value |-> r.value,
                                  results |-> r.results, late |-> r.late]),
     raised |-> FALSE]

\* "if self.best_move is None: ... self.best_move = moves[0]"
AfterLoop(acc) ==
    IF acc.move = None /\ Len(legal_moves(acc.st.board)) > 0
    THEN [acc EXCEPT !.move = legal_moves(acc.st.board)[1], !.value = 0]
    ELSE acc

\* search.py: WorstMoveSearch._iterative_deepening; raised = TRUE when the
\* TimeoutError of "if self.is_timeout(): raise" leaves the function
RECURSIVE iterative_deepening(_, _, _, _)
iterative_deepening(acc, depth, max_depth, sched) ==
    IF depth > max_depth THEN AfterLoop(acc)
    ELSE IF sched.at # Unlimited /\ depth > sched.at
    THEN [acc EXCEPT !.st = Polled(@), !.raised = TRUE]
    ELSE iterative_deepening(
             Iterated(acc, negamax_root(Polled(acc.st), depth,
                                        IF depth = sched.at THEN sched.wb
                                        ELSE AllFinish(Len(legal_moves(acc.st.board))))),
             depth + 1, max_depth, sched)

\* search.py: WorstMoveSearch.get_worst_move; the handler of TimeoutError
\* returns self.best_move, self.best_value as the loop left them
search_get_worst_move(st, depth, sched) ==
    iterative_deepening([move |-> None, value |-> Inf, st |-> st, iters |-> << >>,
                         raised |-> FALSE],
                        1, depth, sched)

----------------------------------------------------------------------------
(* worst_engine.py: the facade.  Root moves are chess.Move values: move i  *)
(* of a position goes from square 2i-1 to square 2i, so the legal moves    *)
(* differ pairwise and last_move, left by an earlier request on another    *)
(* position, may reverse any one of them.                                  *)

Geo(i) == [from |-> 2 * i - 1, to |-> 2 * i]

Rev(m) == [from |-> m.to, to |-> m.from]

\* last_move = None
NoLastMove == [from |-> 0, to |-> 0]

\* bool(move): false for None and for the null move
Truthy(m) == m.from # 0 \/ m.to # 0

\* what the search hands the facade: its own result, or one of the failures
\* the facade guards against
Faults == {"ok", "raise", "none", "illegal"}

\* "move, score = self.search.get_worst_move(board, self.depth)" under a fault;
\* n + 1 is a move that is not legal on the board
worst_found(s, n, fault) ==
    IF fault = "ok" THEN s.move ELSE IF fault = "none" THEN None ELSE n + 1

\* the fallback taking the last legal move, "list(board.legal_moves)[-1]": a
\* fault the fallback to the first legal move rules out
worst_valid_last(found, n) == IF found # None /\ found \notin 1..n THEN n ELSE found

\* "if move and not move in board.legal_moves: move = list(board.legal_moves)[0]"
worst_valid(found, n) == IF found # None /\ found \notin 1..n THEN 1 ELSE found

\* the facade without the anti-shuffle guard
worst_guarded_kept(m1, last, n) == m1

\* the anti-shuffle guard: "legal_moves.remove(move); move = legal_moves[0]"
worst_guarded(m1, last, n) ==
    IF Truthy(last) /\ m1 # None
       /\ Geo(m1).from = last.to /\ Geo(m1).to = last.from /\ n > 1
    THEN (IF m1 = 1 THEN 2 ELSE 1)
    ELSE m1

\* the facade returning what the search handed it, unvalidated: a fault the
\* legality of the returned move rules out
worst_returned_raw(s, last, n, fault, found, m1, m2) ==
    [move     |-> IF found # None THEN found ELSE 1,
     last     |-> IF found # None THEN Geo(found) ELSE last,
     searched |-> TRUE,
     found    |-> found,
     st       |-> s.st,
     iters    |-> IF fault = "ok" THEN s.iters ELSE << >>,
     raised   |-> fault = "ok" /\ s.raised,
     path     |-> "search"]

\* "if move: if move in board.legal_moves: self.last_move = move; return move"
\* and "return list(board.legal_moves)[0]"
worst_returned(s, last, n, fault, found, m1, m2) ==
    [move     |-> IF m2 # None /\ m2 \in 1..n THEN m2 ELSE 1,
     last     |-> IF m2 # None /\ m2 \in 1..n THEN Geo(m2) ELSE last,
     searched |-> TRUE,
     found    |-> found,
     st       |-> s.st,
     iters    |-> IF fault = "ok" THEN s.iters ELSE << >>,
     raised   |-> fault = "ok" /\ s.raised,
     path     |-> IF ~(m2 # None /\ m2 \in 1..n) THEN "fallback"
                  ELSE IF m2 # m1 THEN "shuffle"
                  ELSE IF m1 # found THEN "invalid"
                  ELSE "search"]

\* get_worst_move once the search has returned s
worst_searched(s, last, n, fault) ==
    worst_returned(s, last, n, fault, worst_found(s, n, fault),
                   worst_valid(worst_found(s, n, fault), n),
                   worst_guarded(worst_valid(worst_found(s, n, fault), n), last, n))

\* worst_engine.py: WorstEngine.get_worst_move.  evaluator.position_history
\* is never written, so its clearing never runs.
worst_get_worst_move(st, last, depth, sched, fault) ==
    IF Len(legal_moves(st.board)) = 0
    THEN [move |-> None, last |-> last, searched |-> FALSE, found |-> None,
          st |-> st, iters |-> << >>, raised |-> FALSE, path |-> "none"]
    ELSE IF fault = "raise"
    THEN [move |-> legal_moves(st.board)[1], last |-> last, searched |-> TRUE,
          found |-> None, st |-> st, iters |-> << >>, raised |-> FALSE,
          path |-> "except"]
    ELSE worst_searched(search_get_worst_move(st, depth, sched), last,
                        Len(legal_moves(st.board)), fault)

----------------------------------------------------------------------------
(* The games the engines are run on.                                       *)

HVals == {-200, 300}

\* positions the explicit tree ends in
Leaves ==
    {Checkmated, Stalemated, Quiet(0, "fifty"), Quiet(0, "rep")}
        \cup {Quiet(h, "none") : h \in HVals}

\* positions with one or two replies
Inner ==
    {Node(chk, "none", 0, <<k>>, <<MoveAttr(cap, 0)>>) :
        chk \in BOOLEAN, cap \in BOOLEAN, k \in {Checkmated, Quiet(300, "none")}}
    \cup
    {Node(FALSE, "none", 0, <<k, Quiet(0, "none")>>, <<QuietMove, QuietMove>>) :
        k \in {Checkmated, Stalemated}}

\* a root move: the static part of its ordering score and where it leads
RootMove(ps, kid) == [ps |-> ps, kid |-> kid]

NarrowMoves ==
    {RootMove(0, k) : k \in Leaves \cup Inner}
        \cup {RootMove(-4000, Quiet(h, "none")) : h \in HVals}

WideMoves == {RootMove(0, Quiet(h, "none")) : h \in HVals}

SeqsUpTo(S, n) == UNION {[1..m -> S] : m \in 0..n}

Root(rm) ==
    Node(FALSE, "none", 0, [i \in DOMAIN rm |-> rm[i].kid],
         [i \in DOMAIN rm |-> MoveAttr(FALSE, rm[i].ps)])

\* deep games with few root moves, shallow games with many
Games ==
    {Root(rm) : rm \in SeqsUpTo(NarrowMoves, MaxNarrow)}
        \cup {Root(rm) : rm \in SeqsUpTo(WideMoves, MaxWide)}

Depths == 1..MaxDepth

Budgets == (0..MaxPolls) \cup {Unlimited}

WorkerBudgets == (0..MaxWorkerPolls) \cup {Unlimited}

\* the schedules of the clock for a search to the given depth on n root
\* moves: every combination of worker budgets up to MaxNarrow workers, the
\* same budget for all workers beyond
Schedules(depth, n) ==
    {Schedule(Unlimited, AllFinish(n)), Schedule(0, AllFinish(n))}
        \cup {Schedule(at, wb) :
                at \in 1..depth,
                wb \in IF n <= MaxNarrow THEN [1..n -> WorkerBudgets]
                       ELSE {[i \in 1..n |-> q] : q \in WorkerBudgets}}

Engines ==
    {"WorstEngine", "SearchEngine", "GreedyEngine", "FastWorstSearch",
     "GreedyWorstEngine", "HybridWorstEngine"}

LastMoves == {NoLastMove, Rev(Geo(1)), Rev(Geo(2))}

----------------------------------------------------------------------------
(* The state machine: an engine instance is handed a board and asked for   *)
(* its worst move.                                                         *)

NoCall ==
    [engine |-> "none", depth |-> 0, budget |-> Unlimited,
     sched |-> Schedule(Unlimited, << >>), fault |-> "ok", pre |-> << >>,
     last |-> NoLastMove, move |-> None, score |-> 0, evaluated |-> << >>,
     by |-> "none", iters |-> << >>, found |-> None, searched |-> FALSE,
     raised |-> FALSE, polls |-> 0, evals |-> 0, nodes |-> 0, obs |-> NoObs]

\* the record of a call of the single-threaded engines
Returned(depth, budget, out) ==
    [NoCall EXCEPT !.engine = engine, !.depth = depth, !.budget = budget,
                   !.pre = board, !.move = out.move, !.score = out.score,
                   !.evaluated = out.evaluated, !.by = out.by,
                   !.polls = out.st.polls, !.evals = out.st.evals,
                   !.nodes = out.st.nodes, !.obs = out.st.obs]

\* the watched position of an evaluator run: none in an engine run
NoProbe ==
    [pos |-> Position(Placement(0, TRUE, FALSE, 0, 0), 0, FALSE), seen |-> FALSE,
     score |-> 0, last |-> 0, hit |-> FALSE, evals |-> 0, cleared |-> FALSE]

\* engine_stdin.py is not running
NoStdio == [stdin |-> << >>, stdout |-> << >>, fens |-> << >>, depth |-> 0,
            tt |-> << >>, exited |-> FALSE]

\* web_app.py is not running
NoWeb == [board |-> << >>, threads |-> 0, emitted |-> << >>, last |-> << >>]

\* a search instance as constructed
NoInst == [tt |-> << >>, killer0 |-> -1, calls |-> 0, stale |-> 0,
           over |-> 0, clears |-> 0, flushes |-> 0, unsearched |-> 0,
           baddepth |-> 0, descents |-> {}, move |-> -1, fresh |-> -1]

\* the processes around the engines are not running
\* no worker pool
NoPool == [table |-> << >>, todo |-> << >>, pc |-> << >>, seen |-> << >>,
           over |-> FALSE, lost |-> FALSE]

\* no move orderer applied
NoOrdering == [by |-> "none", killers |-> << >>, history |-> << >>, moves |-> << >>]

AuxIdle ==
    /\ stdio = NoStdio
    /\ web = NoWeb
    /\ inst = NoInst
    /\ pool = NoPool
    /\ ordering = NoOrdering

Init ==
    /\ engine \in Engines
    /\ board \in {Board(g, t, << >>) : g \in Games, t \in BOOLEAN}
    /\ last_move \in IF engine = "WorstEngine" THEN LastMoves ELSE {NoLastMove}
    /\ call = NoCall
    /\ ecache = EmptyDict
    /\ probe = NoProbe
    /\ AuxIdle

\* WorstEngine(depth, max_time).get_worst_move(board)
CallWorstEngine ==
    /\ engine = "WorstEngine"
    /\ call = NoCall
    /\ \E depth \in Depths, fault \in Faults :
       \E sched \in IF fault = "ok"
                    THEN Schedules(depth, Len(legal_moves(board)))
                    ELSE {Schedule(Unlimited, AllFinish(Len(legal_moves(board))))} :
       \E out \in {worst_get_worst_move(Start(board, ecache, Unlimited), last_move,
                                         depth, sched, fault)} :
            /\ call' = [NoCall EXCEPT
                          !.engine = engine, !.depth = depth, !.sched = sched,
                          !.fault = fault, !.pre = board, !.last = last_move,
                          !.move = out.move, !.by = out.path, !.iters = out.iters,
                          !.found = out.found, !.searched = out.searched,
                          !.raised = out.raised, !.polls = out.st.polls,
                          !.evals = out.st.evals, !.nodes = out.st.nodes,
                          !.obs = out.st.obs]
            /\ board' = out.st.board
            /\ ecache' = out.st.cache
            /\ last_move' = out.last
    /\ UNCHANGED <<engine, probe, ordering>>
    /\ UNCHANGED aux

\* GreedyEngine().get_worst_move(board)
CallGreedyEngine ==
    /\ engine = "GreedyEngine"
    /\ call = NoCall
    /\ \E out \in {Greedy_get_worst_move(Start(board, ecache, Unlimited))} :
           /\ call' = Returned(1, Unlimited, out)
           /\ board' = out.st.board
           /\ ecache' = out.st.cache
    /\ UNCHANGED <<engine, last_move, probe, ordering>>
    /\ UNCHANGED aux

\* SearchEngine(depth, max_time).get_worst_move(board)
CallSearchEngine ==
    /\ engine = "SearchEngine"
    /\ call = NoCall
    /\ \E depth \in Depths, budget \in Budgets :
       \E out \in {SE_get_worst_move(Start(board, ecache, budget), depth)} :
            /\ call' = Returned(depth, budget, out)
            /\ board' = out.st.board
            /\ ecache' = out.st.cache
    /\ UNCHANGED <<engine, last_move, probe, ordering>>
    /\ UNCHANGED aux

\* GreedyWorstEngine().get_worst_move(board)
CallGreedyWorstEngine ==
    /\ engine = "GreedyWorstEngine"
    /\ call = NoCall
    /\ \E out \in {GreedyWorst_get_worst_move(Start(board, ecache, Unlimited))} :
           /\ call' = Returned(1, Unlimited, out)
           /\ board' = out.st.board
           /\ ecache' = out.st.cache
    /\ UNCHANGED <<engine, last_move, probe, ordering>>
    /\ UNCHANGED aux

\* HybridWorstEngine().get_worst_move(board)
CallHybridWorstEngine ==
    /\ engine = "HybridWorstEngine"
    /\ call = NoCall
    /\ \E out \in {Hybrid_get_worst_move(Start(board, ecache, Unlimited))} :
           /\ call' = Returned(2, Unlimited, out)
           /\ board' = out.st.board
           /\ ecache' = out.st.cache
    /\ UNCHANGED <<engine, last_move, probe, ordering>>
    /\ UNCHANGED aux

\* FastWorstSearch(evaluator, max_time).search(board, depth)
CallFastWorstSearch ==
    /\ engine = "FastWorstSearch"
    /\ call = NoCall
    /\ \E depth \in Depths, budget \in Budgets :
       \E out \in {fast_search(Start(board, ecache, budget), depth)} :
            /\ call' = [NoCall EXCEPT
                          !.engine = engine, !.depth = depth, !.budget = budget,
                          !.pre = board, !.move = out.move, !.score = out.score,
                          !.iters = out.iters, !.by = "search",
                          !.polls = out.st.polls, !.evals = out.st.evals,
                          !.nodes = out.st.nodes, !.obs = out.st.obs]
            /\ board' = out.st.board
            /\ ecache' = out.st.cache
    /\ UNCHANGED <<engine, last_move, probe, ordering>>
    /\ UNCHANGED aux

Next ==
    \/ CallWorstEngine
    \/ CallGreedyEngine
    \/ CallSearchEngine
    \/ CallGreedyWorstEngine
    \/ CallHybridWorstEngine
    \/ CallFastWorstSearch

Spec == Init /\ [][Next]_vars


----------------------------------------------------------------------------
(* Properties of the engine calls (under Spec).  call.pre is the board the *)
(* call was made on, board the caller's board after it.                    *)

NumLegal(b) == Len(legal_moves(b))

\* move m is legal on b and checkmates
DeliversMate(b, m) == m \in 1..NumLegal(b) /\ is_checkmate(Pos(push(b, m)))

HasMate(b) == \E m \in 1..NumLegal(b) : DeliversMate(b, m)

\* C1: whatever the search does (a result, a timeout, an exception, no move,
\* a move that is not legal), WorstEngine.get_worst_move returns None exactly
\* when the position has no legal move, and otherwise a legal move.
C1_NoneIffNoLegalMove ==
    call.engine = "WorstEngine" =>
        /\ (call.move = None) <=> (NumLegal(call.pre) = 0)
        /\ call.move # None => call.move \in 1..NumLegal(call.pre)

\* the search handed the facade a move that is not legal, and the facade
\* returned a legal one
C1_IllegalMoveReplaced ==
    /\ call.engine = "WorstEngine"
    /\ call.fault = "illegal"
    /\ call.found = NumLegal(call.pre) + 1
    /\ call.move \in 1..NumLegal(call.pre)

\* the search failed: it raised, returned no move or returned an illegal move
SearchFailed ==
    /\ call.engine = "WorstEngine"
    /\ NumLegal(call.pre) > 0
    /\ call.fault \in {"raise", "none", "illegal"}

C3_SingleMoveWithoutSearch ==
    (call.engine = "WorstEngine" /\ NumLegal(call.pre) = 1) =>
        call.move = 1 /\ ~call.searched /\ call.nodes = 0

MateScanners == {"SearchEngine", "GreedyEngine", "GreedyWorstEngine", "HybridWorstEngine"}

\* C4: when a legal move delivers immediate checkmate, SearchEngine,
\* GreedyEngine, GreedyWorstEngine and HybridWorstEngine return a move that
\* delivers checkmate, before any candidate is evaluated or searched and
\* whatever the time budget.
C4_MateInOneChosenFirst ==
    (call.engine \in MateScanners /\ HasMate(call.pre)) =>
        /\ DeliversMate(call.pre, call.move)
        /\ call.evals = 0
        /\ call.nodes = 0

\* SearchEngine, its time used up before the first poll, on a position with
\* several moves of which a later one mates
C4_MateFoundWithNoTime ==
    /\ call.engine = "SearchEngine"
    /\ call.budget = 0
    /\ NumLegal(call.pre) > 1
    /\ ~DeliversMate(call.pre, 1)
    /\ DeliversMate(call.pre, call.move)
    /\ call.by = "mate"

\* C5: given a position with a one-move checkmate, WorstEngine (searching
\* through WorstMoveSearch) selects a checkmating move, whichever side is to
\* move and for every depth >= 1, provided the search is not interrupted.
C5_WorstEngineMatesInOne ==
    (/\ call.engine = "WorstEngine"
     /\ call.fault = "ok"
     /\ call.sched.at = Unlimited
     /\ call.last = NoLastMove
     /\ HasMate(call.pre)) =>
        DeliversMate(call.pre, call.move)

Restoring == {"WorstEngine", "SearchEngine", "GreedyEngine", "FastWorstSearch"}

\* C6: after get_worst_move (WorstEngine, SearchEngine, GreedyEngine) or
\* FastWorstSearch.search returns, the caller's board is as it was before
\* the call, the same position with the same move stack, also when the
\* time budget expired during the search.
C6_BoardRestored == call.engine \in Restoring => board = call.pre

\* a search that pushed moves and ran out of time on the way
C6_RestoredAfterTimeout ==
    /\ call.engine = "SearchEngine"
    /\ call.budget > 0
    /\ call.polls > call.budget
    /\ call.nodes > 1
    /\ board = call.pre

\* the last root pass of the call, and the one before it
LastIter == call.iters[Len(call.iters)]

PrevIter == call.iters[Len(call.iters) - 1]

\* C7: if the time runs out while iteration d >= 2 of iterative deepening is
\* in progress, the move the top-level search returns is the best move of
\* iteration d - 1; the interrupted iteration's result never replaces it.
C7_InterruptedIterationDiscarded ==
    /\ (/\ call.engine = "FastWorstSearch"
        /\ Len(call.iters) >= 2
        /\ Len(LastIter.evaluated) < NumLegal(call.pre)) =>
            call.move = PrevIter.move
    /\ (/\ call.engine = "WorstEngine"
        /\ call.fault = "ok"
        /\ Len(call.iters) >= 2
        /\ \E k \in DOMAIN LastIter.late : LastIter.late[k]) =>
            call.found = PrevIter.move

\* the first of the pairs <<move, score>> with the least score
FirstMin(evaluated) ==
    evaluated[CHOOSE i \in DOMAIN evaluated :
                 \A j \in DOMAIN evaluated :
                     \/ evaluated[i][2] < evaluated[j][2]
                     \/ evaluated[i][2] = evaluated[j][2] /\ i <= j][1]

\* the moves of the pairs are the first moves of the sequence ordered
InOrder(evaluated, ordered) ==
    /\ Len(evaluated) <= Len(ordered)
    /\ \A i \in DOMAIN evaluated : evaluated[i][1] = ordered[i]

\* a root pass of SearchEngine or FastWorstSearch that evaluated a move
\* chose the first of least score, the moves taken in the orderer's order
PassChoosesFirstMin(move, evaluated, ordered) ==
    evaluated # << >> =>
        move = FirstMin(evaluated) /\ InOrder(evaluated, ordered)

\* the workers of a root pass of WorstMoveSearch that returned in time
InTime(it) == {k \in DOMAIN it.late : ~it.late[k]}

\* a root pass of WorstMoveSearch of which a worker returned in time chose
\* the first of least score among the moves of those workers
WorkersChooseFirstMin(it) ==
    InTime(it) # {} =>
        /\ it.move \in InTime(it)
        /\ \A k \in InTime(it) :
              \/ it.results[it.move] < it.results[k]
              \/ it.results[it.move] = it.results[k] /\ it.move <= k

\* C8: within one root pass (FastWorstSearch._root, SearchEngine's
\* get_worst_move, WorstMoveSearch._negamax_root) the root moves are
\* evaluated in the orderer's order and the move chosen has the least score
\* among the root moves evaluated before the timeout, the first evaluated
\* among those of that score.
C8_RootPassChoosesFirstMin ==
    /\ (call.engine = "SearchEngine" /\ call.by = "search") =>
           PassChoosesFirstMin(call.move, call.evaluated,
                               order_moves(call.pre, None).moves)
    /\ call.engine = "FastWorstSearch" =>
           \A i \in DOMAIN call.iters :
               PassChoosesFirstMin(
                   call.iters[i].move, call.iters[i].evaluated,
                   ultra_order_moves(call.pre,
                                     IF i = 1 THEN None ELSE call.iters[i - 1].move,
                                     None).moves)
    /\ (call.engine = "WorstEngine" /\ call.fault = "ok") =>
           \A i \in DOMAIN call.iters : WorkersChooseFirstMin(call.iters[i])

----------------------------------------------------------------------------
(* The evaluators on their own: one evaluator instance is asked to         *)
(* evaluate positions, in any order and any number of times.  One position *)
(* is watched: probe keeps the score of its first evaluation, the score of *)
(* its latest one, whether the latest one was served from the cache, and   *)
(* whether the cache was cleared wholesale since the first one.            *)

Evaluators == {"evaluator.Evaluator", "engine.Evaluator", "FastEvaluator"}

\* checkmate, stalemate, a position with moves
Kinds ==
    {[chk |-> TRUE, nmoves |-> 0], [chk |-> FALSE, nmoves |-> 0],
     [chk |-> FALSE, nmoves |-> 2]}

\* the heuristic sums of the placements: all different, of both signs
EvalPlacements ==
    {Placement(id, turn, k.chk, k.nmoves, (IF turn THEN 100 ELSE -100) * id) :
        id \in 1..MaxPlacements, turn \in BOOLEAN, k \in Kinds}

\* no draw to claim, the fifty-move rule, a repetition
Draws ==
    {[clock |-> 0, rep |-> FALSE], [clock |-> FIFTY_CLOCK, rep |-> FALSE],
     [clock |-> 0, rep |-> TRUE]}

EvalPositions ==
    {Position(pl, d.clock, d.rep) : pl \in EvalPlacements, d \in Draws}

\* the cache lost entries: "self._cache.clear()" ran
Cleared(before, after) == ~(DOMAIN before \subseteq DOMAIN after)

\* the probe after position p was evaluated with result r
Probed(pr, p, r, before) ==
    IF p = pr.pos
    THEN [pr EXCEPT !.seen = TRUE,
                    !.score = IF pr.seen THEN @ ELSE r.score,
                    !.last = r.score,
                    !.hit = r.hit,
                    !.evals = IF @ < MaxEvals THEN @ + 1 ELSE @]
    ELSE [pr EXCEPT !.cleared = @ \/ (pr.seen /\ Cleared(before, r.cache))]

InitEval ==
    /\ engine \in Evaluators
    /\ board = Board(Stalemated, TRUE, << >>)
    /\ last_move = NoLastMove
    /\ call = NoCall
    /\ ecache = EmptyDict
    /\ probe \in {[NoProbe EXCEPT !.pos = p] : p \in EvalPositions}
    /\ AuxIdle

\* evaluator.Evaluator().evaluate_position(board)
EvaluatePosition ==
    /\ engine = "evaluator.Evaluator"
    /\ \E p \in EvalPositions :
       \E r \in {evaluate_position(ecache, p)} :
            /\ ecache' = r.cache
            /\ probe' = Probed(probe, p, r, ecache)
    /\ UNCHANGED <<engine, board, last_move, call, ordering>>
    /\ UNCHANGED aux

\* engine.Evaluator().evaluate(board)
Evaluate ==
    /\ engine = "engine.Evaluator"
    /\ \E p \in EvalPositions :
       \E r \in {evaluate(ecache, p)} :
            /\ ecache' = r.cache
            /\ probe' = Probed(probe, p, r, ecache)
    /\ UNCHANGED <<engine, board, last_move, call, ordering>>
    /\ UNCHANGED aux

\* FastEvaluator().evaluate(board)
FastEvaluate ==
    /\ engine = "FastEvaluator"
    /\ \E p \in EvalPositions :
       \E r \in {fast_evaluate(ecache, p)} :
            /\ ecache' = r.cache
            /\ probe' = Probed(probe, p, r, ecache)
    /\ UNCHANGED <<engine, board, last_move, call, ordering>>
    /\ UNCHANGED aux

NextEval ==
    \/ EvaluatePosition
    \/ Evaluate
    \/ FastEvaluate

SpecEval == InitEval /\ [][NextEval]_vars


----------------------------------------------------------------------------
(* Properties of the evaluators (under SpecEval).                          *)

\* the position is one the evaluators score before they look at the cache
Terminal(p) == is_checkmate(p) \/ is_stalemate(p) \/ can_claim_draw(p)

C10_MatedMoverScoredLowest ==
    probe.seen /\ is_checkmate(probe.pos) => probe.last = -MATE_SCORE

\* C11: for a position that is not checkmate, Evaluator.evaluate_position
\* returns the large positive stalemate score when it is stalemate and a
\* moderately large positive score (that of a repetition or of a claimable
\* draw) when a draw is claimable, whichever colour is to move.
C11_StalemateAndDrawScoredPositive ==
    (engine = "evaluator.Evaluator" /\ probe.seen /\ ~is_checkmate(probe.pos)) =>
        /\ is_stalemate(probe.pos) => probe.last = STALEMATE_SCORE
        /\ can_claim_draw(probe.pos) =>
                probe.last \in {REPETITION_SCORE, DRAW_SCORE}

----------------------------------------------------------------------------
(* engine_stdin.py: the engine behind "fen <FEN>" / "move <UCI>" lines.    *)
(* One WorstEngine (worst_engine.py) serves every request of the process.  *)
(* stdio is                                                                *)
(*   stdin  : the lines not yet read                                       *)
(*   stdout : the lines written so far, print() of the engine included     *)
(*   fens   : the "fen ..." requests read so far                           *)
(*   depth  : int(os.environ["DEPTH"])                                     *)
(*   tt     : the transposition table of the engine's WorstMoveSearch      *)
(*   exited : the loop was left                                            *)

MaxLines == 3         \* lines on stdin

BlankLine == [kind |-> "blank"]
QuitLine == [kind |-> "quit"]
OtherLine == [kind |-> "other"]
\* "fen <FEN>": chess.Board(fen) raises ValueError unless the FEN is valid
FenLine(valid, b) == [kind |-> "fen", valid |-> valid, board |-> b]

MoveLine(uci) == [kind |-> "move", uci |-> uci]
TextLine(text) == [kind |-> "text", text |-> text]

\* print(f"Search error: {e}") of _negamax_root, once for each worker whose
\* future raised
RECURSIVE WorkerErrors(_, _)
WorkerErrors(late, k) ==
    IF k > Len(late) THEN << >>
    ELSE (IF late[k] THEN <<TextLine("Search error: ")>> ELSE << >>)
             \o WorkerErrors(late, k + 1)

RECURSIVE SearchErrors(_, _)
SearchErrors(iters, i) ==
    IF i > Len(iters) THEN << >>
    ELSE WorkerErrors(iters[i].late, 1) \o SearchErrors(iters, i + 1)

\* what a call of get_worst_move prints: the search's lines, and
\* print(f"Engine error: {str(e)}") of the facade's handler
EnginePrinted(out) ==
    SearchErrors(out.iters, 1)
        \o (IF out.path = "except" THEN <<TextLine("Engine error: ")>> ELSE << >>)

\* the positions requests are made for: no legal move, one, two
StdinBoards ==
    {Board(Root(rm), TRUE, << >>) :
        rm \in {<< >>,
                <<RootMove(0, Quiet(300, "none"))>>,
                <<RootMove(0, Quiet(-200, "none")), RootMove(0, Stalemated)>>}}

StdinLines ==
    {BlankLine, QuitLine, OtherLine, FenLine(FALSE, Board(Root(<< >>), TRUE, << >>))}
        \cup {FenLine(TRUE, b) : b \in StdinBoards}

InitStdin ==
    /\ engine = "WorstEngine"
    /\ board = Board(Root(<< >>), TRUE, << >>)
    /\ last_move = NoLastMove
    /\ call = NoCall
    /\ ecache = EmptyDict
    /\ probe = NoProbe
    /\ stdio \in {[NoStdio EXCEPT !.stdin = in, !.depth = d] :
                    in \in SeqsUpTo(StdinLines, MaxLines), d \in 1..2}
    /\ web = NoWeb
    /\ inst = NoInst
    /\ pool = NoPool
    /\ ordering = NoOrdering

\* "for line in sys.stdin" at the end of input: sys.exit(0)
ReadEof ==
    /\ ~stdio.exited /\ stdio.stdin = << >>
    /\ stdio' = [stdio EXCEPT !.exited = TRUE]
    /\ UNCHANGED <<engine, board, last_move, call, ecache, probe, web, inst, pool, ordering>>

\* "if not line: continue" and a line that is neither quit nor a request
ReadIgnored ==
    /\ ~stdio.exited /\ stdio.stdin # << >>
    /\ Head(stdio.stdin).kind \in {"blank", "other"}
    /\ stdio' = [stdio EXCEPT !.stdin = Tail(@)]
    /\ UNCHANGED <<engine, board, last_move, call, ecache, probe, web, inst, pool, ordering>>

\* "if line == 'quit': break"
ReadQuit ==
    /\ ~stdio.exited /\ stdio.stdin # << >>
    /\ Head(stdio.stdin).kind = "quit"
    /\ stdio' = [stdio EXCEPT !.stdin = Tail(@), !.exited = TRUE]
    /\ UNCHANGED <<engine, board, last_move, call, ecache, probe, web, inst, pool, ordering>>

\* a request with a FEN chess.Board rejects, in the try and in the handler:
\* print("move", "")
ReadBadFen ==
    /\ ~stdio.exited /\ stdio.stdin # << >>
    /\ Head(stdio.stdin).kind = "fen" /\ ~Head(stdio.stdin).valid
    /\ stdio' = [stdio EXCEPT !.stdin = Tail(@),
                              !.stdout = Append(@, MoveLine(None)),
                              !.fens = Append(@, Head(stdio.stdin))]
    /\ UNCHANGED <<engine, board, last_move, call, ecache, probe, web, inst, pool, ordering>>

\* "board = chess.Board(fen); move = engine.get_worst_move(board);
\* print('move', move.uci() if move else '')"
ReadFen ==
    /\ ~stdio.exited /\ stdio.stdin # << >>
    /\ Head(stdio.stdin).kind = "fen" /\ Head(stdio.stdin).valid
    /\ \E fault \in Faults :
       \E sched \in IF fault = "ok"
                    THEN Schedules(stdio.depth,
                                   Len(legal_moves(Head(stdio.stdin).board)))
                    ELSE {Schedule(Unlimited,
                                   AllFinish(Len(legal_moves(Head(stdio.stdin).board))))} :
       \E out \in {worst_get_worst_move(
                       [Start(Head(stdio.stdin).board, ecache, Unlimited)
                            EXCEPT !.tt = stdio.tt, !.old = DOMAIN stdio.tt],
                       last_move, stdio.depth, sched, fault)} :
            /\ stdio' = [stdio EXCEPT
                           !.stdin = Tail(@),
                           !.stdout = (@ \o EnginePrinted(out))
                                          \o <<MoveLine(out.move)>>,
                           !.fens = Append(@, Head(stdio.stdin)),
                           !.tt = out.st.tt]
            /\ board' = out.st.board
            /\ ecache' = out.st.cache
            /\ last_move' = out.last
    /\ UNCHANGED <<engine, call, probe, web, inst, pool, ordering>>

NextStdin ==
    \/ ReadEof
    \/ ReadIgnored
    \/ ReadQuit
    \/ ReadBadFen
    \/ ReadFen

SpecStdin == InitStdin /\ [][NextStdin]_vars

\* C12: the process writes exactly one line per "fen" request read, each a
\* "move <UCI>" line whose move is legal in the position requested or
\* empty, and nothing else: the k-th line of stdout answers the k-th request.
C12_OneMoveLinePerFen ==
    /\ Len(stdio.stdout) = Len(stdio.fens)
    /\ \A k \in DOMAIN stdio.stdout :
          /\ stdio.stdout[k].kind = "move"
          /\ k <= Len(stdio.fens) =>
                \/ stdio.stdout[k].uci = None
                \/ /\ stdio.fens[k].valid
                   /\ stdio.stdout[k].uci \in 1..Len(legal_moves(stdio.fens[k].board))

----------------------------------------------------------------------------
(* web_app.py: the "move" handler and the engine thread.  game_state holds *)
(* one board and one WorstEngine of engine.py with depth 2, a SearchEngine.*)
(* A UCI string is a sequence of characters; the moves are between the     *)
(* squares a1 and a2, numbered 1 and 2: legal move 1 is a1a2, legal move 2 *)
(* is a2a1q, a promotion to a queen.  web is                               *)
(*   board   : game_state.board                                            *)
(*   threads : engine threads started and not yet run                      *)
(*   emitted : the events emitted by the last handler or thread            *)
(*   last    : the last "move" request: its data, the board before and     *)
(*             after it, whether it started an engine thread               *)

MaxUci == 6           \* characters of the data["move"] strings
MaxWebPlies == 3      \* moves pushed onto game_state.board

SquareName(sq) == <<"a", (<<"1", "2">>)[sq]>>

\* chess.Move of legal move i
WebMove(i) ==
    IF i = 1 THEN [from |-> 1, to |-> 2, promo |-> ""]
    ELSE [from |-> 2, to |-> 1, promo |-> "q"]

\* move.uci()
uci(m) == (SquareName(m.from) \o SquareName(m.to))
              \o (IF m.promo = "" THEN << >> ELSE <<m.promo>>)

\* SQUARE_NAMES.index(name) + 1, or 0 where index raises ValueError
SquareIndex(name) ==
    IF \E sq \in 1..2 : SquareName(sq) = name
    THEN CHOOSE sq \in 1..2 : SquareName(sq) = name
    ELSE 0

\* chess.Move.from_uci(s) for a string of 4 or 5 characters: ok = FALSE where
\* it raises (a ValueError)
from_uci(s) ==
    [ok    |-> /\ SquareIndex(SubSeq(s, 1, 2)) # 0
               /\ SquareIndex(SubSeq(s, 3, 4)) # 0
               /\ Len(s) = 5 => s[5] \in {"p", "n", "b", "r", "q", "k"}
               /\ SquareIndex(SubSeq(s, 1, 2)) # SquareIndex(SubSeq(s, 3, 4)),
     from  |-> SquareIndex(SubSeq(s, 1, 2)),
     to    |-> SquareIndex(SubSeq(s, 3, 4)),
     promo |-> IF Len(s) = 5 THEN s[5] ELSE ""]

\* the legality test comparing squares only, not the promotion piece: a
\* fault the validation of the handler rules out
LegalIndex_squares(b, m) ==
    IF \E i \in 1..Len(legal_moves(b)) : WebMove(i).from = m.from /\ WebMove(i).to = m.to
    THEN CHOOSE i \in 1..Len(legal_moves(b)) :
            WebMove(i).from = m.from /\ WebMove(i).to = m.to
    ELSE 0

\* "move in game_state.board.legal_moves": the index of the move, or 0
LegalIndex(b, m) ==
    IF \E i \in 1..Len(legal_moves(b)) :
            WebMove(i) = [from |-> m.from, to |-> m.to, promo |-> m.promo]
    THEN CHOOSE i \in 1..Len(legal_moves(b)) :
            WebMove(i) = [from |-> m.from, to |-> m.to, promo |-> m.promo]
    ELSE 0

\* board.is_game_over(): no legal move (the draws that end a game without a
\* claim are not in the games modelled)
is_game_over(b) == Len(legal_moves(b)) = 0

Handled(b, valid, started) == [board |-> b, valid |-> valid, started |-> started]

\* handle_move once data["move"] parsed as m
handle_parsed(b, m) ==
    IF ~m.ok THEN Handled(b, FALSE, FALSE)
    ELSE IF LegalIndex(b, m) = 0 THEN Handled(b, FALSE, FALSE)
    ELSE Handled(push(b, LegalIndex(b, m)), TRUE,
                 ~is_game_over(push(b, LegalIndex(b, m))))

\* web_app.py: handle_move; data is [has, move]: whether the key "move" is
\* there (KeyError otherwise) and its string
handle_move(b, data) ==
    IF ~data.has THEN Handled(b, FALSE, FALSE)
    ELSE IF Len(data.move) \notin {4, 5} THEN Handled(b, FALSE, FALSE)
    ELSE IF SubSeq(data.move, 1, 2) = SubSeq(data.move, 3, 4)
    THEN Handled(b, FALSE, FALSE)
    ELSE handle_parsed(b, from_uci(data.move))

\* the strings sent: every four characters of squares, followed by
\* nothing, a piece letter, another character or more, and shorter ones
WebUcis ==
    {s \o t : s \in [1..4 -> {"a", "1", "2"}],
              t \in {u \in {<< >>, <<"q">>, <<"x">>, <<"q", "q">>} : Len(u) + 4 <= MaxUci}}
        \cup {<< >>, <<"a", "1", "a">>}

WebData ==
    {[has |-> FALSE, move |-> << >>]}
        \cup {[has |-> TRUE, move |-> s] : s \in WebUcis}

\* the game: two moves at the start; after the first the engine has two
\* replies, the second (the promotion) stalemates
WebGame ==
    Node(FALSE, "none", 0,
         <<Node(FALSE, "none", 0, <<Quiet(300, "none"), Quiet(-200, "none")>>,
                <<QuietMove, QuietMove>>),
           Stalemated>>,
         <<QuietMove, QuietMove>>)

InitWeb ==
    /\ engine = "SearchEngine"
    /\ board = Board(Root(<< >>), TRUE, << >>)
    /\ last_move = NoLastMove
    /\ call = NoCall
    /\ ecache = EmptyDict
    /\ probe = NoProbe
    /\ stdio = NoStdio
    /\ web = [NoWeb EXCEPT !.board = Board(WebGame, TRUE, << >>)]
    /\ inst = NoInst
    /\ pool = NoPool
    /\ ordering = NoOrdering

\* @socketio.on("move")
HandleMove ==
    /\ Len(web.board.stack) < MaxWebPlies
    /\ \E data \in WebData :
       \E r \in {handle_move(web.board, data)} :
            web' = [board   |-> r.board,
                    threads |-> web.threads + (IF r.started THEN 1 ELSE 0),
                    emitted |-> <<[event |-> "player_move", valid |-> r.valid]>>,
                    last    |-> <<[data |-> data, pre |-> web.board,
                                   post |-> r.board, started |-> r.started]>>]
    /\ UNCHANGED <<engine, board, last_move, call, ecache, probe, stdio, inst, pool, ordering>>

\* run_engine_and_emit, in its thread
RunEngineAndEmit ==
    /\ web.threads > 0
    /\ Len(web.board.stack) < MaxWebPlies
    /\ \E budget \in {0, Unlimited} :
       \E out \in {SE_get_worst_move(Start(web.board, ecache, budget), 2)} :
            /\ web' = [web EXCEPT
                         !.board = IF out.move # None THEN push(out.st.board, out.move)
                                   ELSE out.st.board,
                         !.threads = @ - 1,
                         !.emitted = <<[event |-> "engine_move", valid |-> TRUE]>>]
            /\ ecache' = out.st.cache
    /\ UNCHANGED <<engine, board, last_move, call, probe, stdio, inst, pool, ordering>>

NextWeb ==
    \/ HandleMove
    \/ RunEngineAndEmit

SpecWeb == InitWeb /\ [][NextWeb]_vars

\* the request's string is the UCI form of a move legal on b
NamesLegalMove(b, s) == \E i \in 1..Len(legal_moves(b)) : uci(WebMove(i)) = s

\* the request satisfies the three conditions of the handler
MoveAcceptable(r) ==
    /\ r.data.has
    /\ Len(r.data.move) \in {4, 5}
    /\ SubSeq(r.data.move, 1, 2) # SubSeq(r.data.move, 3, 4)
    /\ NamesLegalMove(r.pre, r.data.move)

\* C13: handle_move pushes the player's move only if the UCI string has 4
\* or 5 characters, its squares differ and it names a legal move of the
\* board; in every other case the board is unchanged, no engine thread is
\* started and player_move with valid = False is emitted.
C13_MovePushedOnlyIfValid ==
    \A i \in DOMAIN web.last :
        /\ web.last[i].post # web.last[i].pre => MoveAcceptable(web.last[i])
        /\ (~MoveAcceptable(web.last[i]) /\ web.emitted[1].event = "player_move") =>
                /\ web.last[i].post = web.last[i].pre
                /\ ~web.last[i].started
                /\ web.emitted = <<[event |-> "player_move", valid |-> FALSE]>>

\* two moves into the game, a five-character string that parses but names
\* no legal move (a1a2 is legal, a1a2q is not) was rejected
C13_PromotionWithoutPieceRejected ==
    /\ web.last # << >>
    /\ Len(web.last[1].pre.stack) = 2
    /\ web.last[1].data.has
    /\ web.last[1].data.move = <<"a", "1", "a", "2", "q">>
    /\ Len(legal_moves(web.last[1].pre)) = 1
    /\ web.last[1].post = web.last[1].pre
    /\ web.emitted = <<[event |-> "player_move", valid |-> FALSE]>>

----------------------------------------------------------------------------
(* Properties of the searches' bookkeeping (under Spec).                   *)

TimedSearches == {"WorstEngine", "FastWorstSearch"}

\* C14: every node WorstMoveSearch and FastWorstSearch visit, negamax and
\* quiescence nodes alike, reads the clock on entry, so no node is entered
\* unchecked once the time budget is used up.
C14_EveryNodeChecksTime ==
    call.engine \in TimedSearches => call.obs.blind = 0 /\ call.obs.late = 0

\* C15: a transposition-table hit is used as a node's result only if the
\* entry was stored by a search of that position to a depth greater than or
\* equal to the depth required at the node, in FastWorstSearch._negamax and
\* in WorstMoveSearch._negamax.
C15_HitOnlyAtSufficientDepth ==
    call.engine \in TimedSearches => call.obs.shallow = 0

----------------------------------------------------------------------------
(* One search instance serving a sequence of top-level calls: a            *)
(* WorstMoveSearch (get_worst_move) or a FastWorstSearch (search), each    *)
(* with its evaluator.  inst is                                            *)
(*   tt, killer0 : the instance's tables as the last call left them        *)
(*   calls       : the calls made                                          *)
(*   stale       : table hits, in the last call, on entries written by an  *)
(*                 earlier call                                            *)
(*   over, clears, flushes : as in NoObs, over all the calls               *)
(*   unsearched, baddepth, descents : as in NoObs, in the last call        *)

MaxCalls == 2         \* top-level calls on one instance
MaxTable == 2         \* stands for max_tt (200_000), max_table_size (1_000_000)

SearchInstances == {"WorstMoveSearch", "FastWorstSearch"}

\* engine_stdin.py: "depth = int(os.environ.get("DEPTH", "2"))"
StdinDepth == 2

\* a position in check with one reply, to a quiet position
CheckedOnce(h) == Node(TRUE, "none", 0, <<Quiet(h, "none")>>, <<QuietMove>>)

\* the games one process is sent positions of: one or two root moves, each
\* to a quiet position or to a position in check
ServedMoves == WideMoves \cup {RootMove(0, CheckedOnce(h)) : h \in HVals}

ServedBoards ==
    {Board(Root(rm), t, << >>) :
        rm \in UNION {[1..n -> ServedMoves] : n \in 1..2}, t \in BOOLEAN}

\* the fens a process is sent: the start of the game or the position after
\* one of its first moves
Fens(b) ==
    {Board(b.game, b.turn, s) :
        s \in {<< >>} \cup {<<i>> : i \in 1..NumMoves(b.game)}}

\* a position in check with two quiet replies
CheckedTwice ==
    Node(TRUE, "none", 0, <<Quiet(-200, "none"), Quiet(300, "none")>>,
         <<QuietMove, QuietMove>>)

\* the positions searched: one to three root moves, each to a quiet position
\* or to a position in check
CallBoards ==
    {Board(Root(rm), t, << >>) :
        rm \in UNION {[1..n -> WideMoves \cup {RootMove(0, CheckedTwice)}] : n \in 1..3},
        t \in BOOLEAN}

\* the search state a call starts from: the tables are those of the instance
Resumed(b) ==
    [Start(b, ecache, Unlimited) EXCEPT !.tt = inst.tt, !.old = DOMAIN inst.tt,
                                        !.killer0 = inst.killer0,
                                        !.max_tt = MaxTable,
                                        !.max_table_size = MaxTable]

InitCalls ==
    /\ engine \in SearchInstances \cup {"WorstEngine"}
    /\ board \in IF engine = "WorstEngine" THEN ServedBoards ELSE CallBoards
    /\ last_move = NoLastMove
    /\ call = NoCall
    /\ ecache = EmptyDict
    /\ probe = NoProbe
    /\ stdio = NoStdio
    /\ web = NoWeb
    /\ inst = NoInst
    /\ pool = NoPool
    /\ ordering = NoOrdering

\* the instance after a call that left the search state st
Called(st) ==
    [tt |-> st.tt, killer0 |-> st.killer0, calls |-> inst.calls + 1,
     stale |-> st.obs.stale, over |-> inst.over + st.obs.over,
     clears |-> inst.clears + st.obs.clears,
     flushes |-> inst.flushes + st.obs.flushes,
     unsearched |-> st.obs.unsearched, baddepth |-> st.obs.baddepth,
     descents |-> st.obs.descents, move |-> None, fresh |-> None]

\* WorstMoveSearch.get_worst_move(board, depth), no timeout
CallWorstMoveSearch ==
    /\ engine = "WorstMoveSearch"
    /\ inst.calls < MaxCalls
    /\ \E b \in CallBoards, depth \in 1..2 :
       \E out \in {search_get_worst_move(
                       Resumed(b), depth,
                       Schedule(Unlimited, AllFinish(Len(legal_moves(b)))))} :
            /\ inst' = Called(out.st)
            /\ board' = out.st.board
            /\ ecache' = out.st.cache
    /\ UNCHANGED <<engine, last_move, call, probe, stdio, web, pool, ordering>>

\* FastWorstSearch.search(board, depth), no timeout
CallFastSearchAgain ==
    /\ engine = "FastWorstSearch"
    /\ inst.calls < MaxCalls
    /\ \E b \in CallBoards, depth \in 1..2 :
       \E out \in {fast_search(Resumed(b), depth)} :
            /\ inst' = Called(out.st)
            /\ board' = out.st.board
            /\ ecache' = out.st.cache
    /\ UNCHANGED <<engine, last_move, call, probe, stdio, web, pool, ordering>>

\* engine_stdin.py: one "fen" request served by the WorstEngine of the
\* process, no timeout; fresh is the move an engine just constructed returns
\* for the same position
ServeFen ==
    /\ engine = "WorstEngine"
    /\ inst.calls < MaxCalls
    /\ \E b \in Fens(board) :
       \E out \in {worst_get_worst_move(
                       Resumed(b), last_move, StdinDepth,
                       Schedule(Unlimited, AllFinish(Len(legal_moves(b)))), "ok")},
          new \in {worst_get_worst_move(
                       Start(b, EmptyDict, Unlimited), NoLastMove, StdinDepth,
                       Schedule(Unlimited, AllFinish(Len(legal_moves(b)))), "ok")} :
            /\ inst' = [Called(out.st) EXCEPT !.move = out.move, !.fresh = new.move]
            /\ board' = out.st.board
            /\ ecache' = out.st.cache
            /\ last_move' = out.last
    /\ UNCHANGED <<engine, call, probe, stdio, web, pool, ordering>>

NextCalls ==
    \/ CallWorstMoveSearch
    \/ CallFastSearchAgain
    \/ ServeFen

SpecCalls == InitCalls /\ [][NextCalls]_vars

C17_NoMateScoreStored == call.engine \in TimedSearches => call.obs.mated = 0


\* C18: over any sequence of searches on one instance, with the evaluations
\* they make, the evaluation cache never holds more than max_cache_size
\* entries and the transposition table never more than its maximum, and an
\* insertion that finds a table at its bound leaves it holding the new entry
\* alone.
C18_TablesBounded ==
    /\ inst.over = 0
    /\ Cardinality(DOMAIN inst.tt) <= MaxTable
    /\ Cardinality(DOMAIN ecache) <= MaxCacheSize

\* both tables have been found at their bound by an insertion
C18_BothTablesCleared == inst.clears > 0 /\ inst.flushes > 0

----------------------------------------------------------------------------
(* The worker threads of one WorstMoveSearch._negamax_root call.  Each     *)
(* worker runs _negamax on its own copy of the position; what the workers  *)
(* share is self.transposition_table, which each of them writes at the end *)
(* of a frame by "if len(t) >= max: t.clear()" and "t[key] = value", three *)
(* steps with nothing to keep another thread from running in between.     *)
(* pool is                                                                 *)
(*   table : the shared table                                              *)
(*   todo  : for each worker, the insertions it has still to make          *)
(*   pc    : for each worker, the step it is at                            *)
(*   seen  : for each worker, the keys in the table at its last size check *)
(*   over  : an insertion left the table above its bound                   *)
(*   lost  : a clear removed an entry that was inserted after the size     *)
(*           check that led to the clear                                   *)

\* the positions searched by the pool: two or three root moves
PoolBoards ==
    {Board(Root(rm), TRUE, << >>) :
        rm \in UNION {[1..n -> WideMoves] : n \in 2..3}}

\* the entries left in the table by earlier searches, of other positions
Earlier(n) ==
    [key \in {fen(Pos(push(Board(Root([j \in 1..MaxTable |-> RootMove(0, Quiet(0, "none"))]),
                                 FALSE, << >>), i))) : i \in 1..n} |-> 0]

\* the insertions worker k makes, in order: those of its _negamax call
WorkerStores(b, k, depth) ==
    negamax([Start(b, EmptyDict, Unlimited) EXCEPT !.board = push(copy(@), k)],
            depth - 1, -Inf, Inf, TRUE).st.obs.stores

InitPool ==
    /\ engine = "WorstMoveSearch"
    /\ board \in PoolBoards
    /\ last_move = NoLastMove
    /\ call = NoCall
    /\ ecache = EmptyDict
    /\ probe = NoProbe
    /\ stdio = NoStdio
    /\ web = NoWeb
    /\ inst = NoInst
    /\ ordering = NoOrdering
    /\ \E n \in 0..MaxTable, depth \in 2..3 :
           pool = [table |-> Earlier(n),
                   todo  |-> [k \in 1..Len(legal_moves(board)) |->
                                  WorkerStores(board, k, depth)],
                   pc    |-> [k \in 1..Len(legal_moves(board)) |-> "check"],
                   seen  |-> [k \in 1..Len(legal_moves(board)) |-> {}],
                   over  |-> FALSE,
                   lost  |-> FALSE]

\* "if len(self.transposition_table) >= self.max_table_size:"
PoolCheck(w) ==
    /\ pool.pc[w] = "check"
    /\ pool.todo[w] # << >>
    /\ pool' = [pool EXCEPT
                    !.pc[w] = IF Cardinality(DOMAIN pool.table) >= MaxTable
                              THEN "clear" ELSE "insert",
                    !.seen[w] = DOMAIN pool.table]
    /\ UNCHANGED <<engine, board, last_move, call, ecache, probe, stdio, web, inst, ordering>>

\* "self.transposition_table.clear()"
PoolClear(w) ==
    /\ pool.pc[w] = "clear"
    /\ pool' = [pool EXCEPT
                    !.table = EmptyDict,
                    !.pc[w] = "insert",
                    !.lost = @ \/ ~(DOMAIN pool.table \subseteq pool.seen[w])]
    /\ UNCHANGED <<engine, board, last_move, call, ecache, probe, stdio, web, inst, ordering>>

\* "self.transposition_table[key] = value"
PoolInsert(w) ==
    /\ pool.pc[w] = "insert"
    /\ pool' = [pool EXCEPT
                    !.table = DictPut(@, Head(pool.todo[w]).key,
                                      Head(pool.todo[w]).entry),
                    !.todo[w] = Tail(@),
                    !.pc[w] = "check",
                    !.over = @ \/ Cardinality(DOMAIN pool.table
                                               \cup {Head(pool.todo[w]).key}) > MaxTable]
    /\ UNCHANGED <<engine, board, last_move, call, ecache, probe, stdio, web, inst, ordering>>

NextPool ==
    \/ \E w \in DOMAIN pool.pc : PoolCheck(w)
    \/ \E w \in DOMAIN pool.pc : PoolClear(w)
    \/ \E w \in DOMAIN pool.pc : PoolInsert(w)

SpecPool == InitPool /\ [][NextPool]_vars

\* C19: in the parallel root search the workers' writes to the shared table
\* do not interleave: under every interleaving the table stays within its
\* bound and no worker's clear removes an entry another worker inserted
\* after the size check that led to the clear.
C19_SharedTableWritesAtomic == ~pool.over /\ ~pool.lost


\* C20: every frame of the recursive search routines pops what it pushed
\* on every exit path, the one taken by the timeout signal included: the
\* _negamax frame of each root worker is left with the worker's board as it
\* was at frame entry.
C20_FrameLeavesBoardAsEntered == call.obs.leaked = 0

----------------------------------------------------------------------------
(* The move orderers, each applied to a position.  The static part ps of a *)
(* move's score stands for the terms read off the pieces (piece, rim,      *)
(* development, castling, capture value, hanging pieces, SEE).             *)

MaxStatic == 108100   \* the static terms at their lowest, negated: a knight
                      \* from the back rank to the rim taking a heavier
                      \* piece, queen and rook left hanging
MaxHistory == 1000    \* a history-table adjustment, either sign

MO_CHECKMATE  == 200000
MO_STALEMATE  == 150000
MO_REPETITION == 120000
MO_CHECK      == 15000
MO_CLAIM_DRAW == 100000
MO_ALLOW_MATE == 180000
MO_KILLER     == 7000

\* "for opp_move in board.legal_moves: ... if board.is_checkmate()"
AllowsMate(b) == \E m \in 1..Len(legal_moves(b)) : is_checkmate(Pos(push(b, m)))

\* move_ordering.py: score_move; no term returns early
mo_score_move(b, i) ==
    Attr(Here(b), i).ps
    - (IF is_checkmate(Pos(push(b, i))) THEN MO_CHECKMATE ELSE 0)
    + (IF is_stalemate(Pos(push(b, i))) THEN MO_STALEMATE ELSE 0)
    + (IF can_claim_threefold_repetition(Pos(push(b, i))) THEN MO_REPETITION ELSE 0)
    - (IF is_check(push(b, i)) THEN MO_CHECK ELSE 0)
    + (IF can_claim_draw(Pos(push(b, i))) THEN MO_CLAIM_DRAW ELSE 0)
    - (IF ~is_checkmate(Pos(push(b, i))) /\ AllowsMate(push(b, i))
       THEN MO_ALLOW_MATE ELSE 0)

\* "if m == k1 or m == k2: scored[i] = (s - 7000, m)" and
\* "scored = [(s + ht.get(m, 0), m) for s, m in scored]"
mo_adjusted(scored, killers, history) ==
    [k \in DOMAIN scored |->
        <<scored[k][1]
            - (IF killers # << >> /\ (k = killers[1] \/ k = killers[2])
               THEN MO_KILLER ELSE 0)
            + (IF k \in DOMAIN history THEN history[k] ELSE 0),
          scored[k][2]>>]

\* move_ordering.py: order_moves(board, history_table, killer_moves);
\* history is history_table[board.fen()], empty when the key is absent
mo_order_moves(b, history, killers) ==
    MovesOf(SortScored(
        mo_adjusted([k \in 1..Len(legal_moves(b)) |-> <<mo_score_move(b, k), k>>],
                    killers, history),
        Len(legal_moves(b))))

\* where a move of an ordered position leads
OrderKids ==
    {Checkmated, Stalemated, Quiet(0, "none"), Quiet(0, "rep"),
     Node(TRUE, "none", 0, <<Checkmated>>, <<QuietMove>>),
     Node(TRUE, "none", 0, <<Quiet(300, "none")>>, <<QuietMove>>)}

OrderBoards ==
    {Board(Root(rm), TRUE, << >>) :
        rm \in UNION {[1..n -> {RootMove(ps, k) : ps \in {-MaxStatic, 0},
                                                  k \in OrderKids}] : n \in 2..3}}

InitOrder ==
    /\ engine = "none"
    /\ board \in OrderBoards
    /\ last_move = NoLastMove
    /\ call = NoCall
    /\ ecache = EmptyDict
    /\ probe = NoProbe
    /\ stdio = NoStdio
    /\ web = NoWeb
    /\ inst = NoInst
    /\ pool = NoPool
    /\ ordering = NoOrdering

\* engine.py: order_moves(board, killer)
OrderMoves ==
    /\ ordering = NoOrdering
    /\ \E killer \in {None} \cup (1..Len(legal_moves(board))) :
           ordering' = [by |-> "engine.order_moves", killers |-> <<killer, None>>,
                        history |-> << >>,
                        moves |-> order_moves(board, killer).moves]
    /\ UNCHANGED <<engine, board, last_move, call, ecache, probe, stdio, web, inst,
                   pool>>

\* fast_move_order.py: ultra_order_moves(board, (k1, k2))
UltraOrderMoves ==
    /\ ordering = NoOrdering
    /\ \E k1, k2 \in {None} \cup (1..Len(legal_moves(board))) :
           ordering' = [by |-> "ultra_order_moves", killers |-> <<k1, k2>>,
                        history |-> << >>,
                        moves |-> ultra_order_moves(board, k1, k2).moves]
    /\ UNCHANGED <<engine, board, last_move, call, ecache, probe, stdio, web, inst,
                   pool>>

\* move_ordering.py: order_moves(board, history_table, killer_moves)
SearchOrderMoves ==
    /\ ordering = NoOrdering
    /\ \E killers \in {<< >>} \cup
                      {<<k1, k2>> : k1 \in {None} \cup (1..Len(legal_moves(board))),
                                    k2 \in {None, 1}},
          history \in {<< >>} \cup
                      {[k \in 1..Len(legal_moves(board)) |-> IF k = m THEN a ELSE 0] :
                           m \in 1..Len(legal_moves(board)),
                           a \in {-MaxHistory, MaxHistory}} :
           ordering' = [by |-> "move_ordering.order_moves", killers |-> killers,
                        history |-> history,
                        moves |-> mo_order_moves(board, history, killers)]
    /\ UNCHANGED <<engine, board, last_move, call, ecache, probe, stdio, web, inst,
                   pool>>

NextOrder ==
    \/ OrderMoves
    \/ UltraOrderMoves
    \/ SearchOrderMoves

SpecOrder == InitOrder /\ [][NextOrder]_vars

\* in the list moves, no move that does not mate comes before one that does
MatesFirst(b, moves) ==
    \A i, j \in DOMAIN moves :
        i < j /\ DeliversMate(b, moves[j]) => DeliversMate(b, moves[i])

\* C21: in the list a move orderer returns, every move that delivers
\* immediate checkmate comes before every move that does not, whatever the
\* other scoring terms, the killers and the history adjustments.
C21_MatingMovesOrderedFirst == MatesFirst(board, ordering.moves)


\* C22: once the depth is exhausted, the quiescence searches of
\* WorstMoveSearch and FastWorstSearch push capture moves only, in every
\* position, those where the side to move is in check included.
C22_QuiescencePushesCapturesOnly ==
    call.engine \in TimedSearches => call.obs.quiet = 0


\* C23: WorstMoveSearch._negamax leaves a move of its loop unsearched only
\* when the window has closed (alpha >= beta); called with the full window
\* at a node with several legal moves it searches every one of them.
C23_LoopCutOnlyWhenWindowClosed ==
    engine = "WorstMoveSearch" => inst.unsearched = 0


\* the search selected a legal move that reverses the engine's previous move
Reversing ==
    /\ call.engine = "WorstEngine"
    /\ call.fault = "ok"
    /\ call.found \in 1..NumLegal(call.pre)
    /\ Truthy(call.last)
    /\ Geo(call.found) = Rev(call.last)

----------------------------------------------------------------------------
(* One WorstMoveSearch._negamax_root call on an empty table, deep enough   *)
(* for the null move (depth >= 3) and the internal iterative reduction     *)
(* (depth >= 4).  Under get_worst_move the iterations after the second     *)
(* find every root child in the table and search nothing.                  *)

MaxDeep == 6          \* configured depth of the deep searches

\* a quiet position with k quiet replies
Fan(k) ==
    Node(FALSE, "none", 0,
         [i \in 1..k |-> Quiet(IF i % 2 = 0 THEN 300 ELSE -200, "none")],
         [i \in 1..k |-> QuietMove])

DeepBoards ==
    {Board(Root(rm), t, << >>) :
        rm \in UNION {[1..n -> {RootMove(0, Fan(k)) : k \in 1..MaxWide}] : n \in 1..2},
        t \in BOOLEAN}

InitDeep ==
    /\ engine = "WorstMoveSearch"
    /\ board \in DeepBoards
    /\ last_move = NoLastMove
    /\ call = NoCall
    /\ ecache = EmptyDict
    /\ probe = NoProbe
    /\ stdio = NoStdio
    /\ web = NoWeb
    /\ inst = NoInst
    /\ pool = NoPool
    /\ ordering = NoOrdering

\* WorstMoveSearch._negamax_root(board, depth) on a new instance, no timeout
CallDeep ==
    /\ inst.calls = 0
    /\ \E depth \in 1..MaxDeep :
       \E out \in {negamax_root(Start(board, ecache, Unlimited), depth,
                                AllFinish(Len(legal_moves(board))))} :
            /\ inst' = [Called(out.st) EXCEPT !.calls = depth]
            /\ board' = out.st.board
            /\ ecache' = out.st.cache
    /\ UNCHANGED <<engine, last_move, call, probe, stdio, web, pool, ordering>>

NextDeep == CallDeep

SpecDeep == InitDeep /\ [][NextDeep]_vars

\* C25: with no time limit, every call WorstMoveSearch._negamax makes of
\* itself (ordinary child, null-move child, late-move-reduced child, child
\* after the internal iterative reduction) and every call a root worker
\* makes passes a depth d' with 0 <= d' < d, d being the caller's depth:
\* _negamax is never entered with a negative depth.
C25_DepthDecreasesAndStaysNonNegative == inst.baddepth = 0

\* a search made root, ordinary, null-move and reduced calls
C25_EveryKindOfCallMade ==
    {"root", "child", "null", "iir"} \subseteq inst.descents


\* C26: every value WorstMoveSearch._negamax stores or returns for a node
\* with a legal move is a finite score, from a searched child or from an
\* evaluation: the +inf the move loop starts from is never stored or
\* returned.
C26_PlaceholderNeverReturned ==
    call.engine = "WorstEngine" => call.obs.placeholder = 0

\* C28: after a call of WorstEngine.get_worst_move that returns a move, the
\* engine's last_move is the move just returned, whichever return statement
\* produced it (the faults of the search are left out: the search ran as
\* written).
C28_LastMoveIsReturnedMove ==
    call.engine = "WorstEngine" /\ call.fault = "ok" /\ call.move # None
        => last_move = Geo(call.move)

\* C27: with no timeout, the move WorstEngine.get_worst_move returns for a
\* position is the move a newly constructed engine of the same depth returns
\* for it, whatever requests the engine served before.
C27_MoveDependsOnPositionOnly ==
    engine = "WorstEngine" /\ inst.calls > 0 => inst.move = inst.fresh

\* C30: SearchEngine._search never returns the -1e9 its loop starts from
\* for a node with a legal move, wherever the deadline falls: the value is
\* an evaluation or the negated value of a searched child.
C30_SearchNeverReturnsPlaceholder ==
    call.engine = "SearchEngine" => call.obs.placeholder = 0

----------------------------------------------------------------------------
(* web_app.py with its threads (async_mode = "threading"): every handler   *)
(* runs in a thread of its own and so does run_engine_and_emit, all on the *)
(* one game_state.  A handler is taken as one step; the engine thread is   *)
(* two, the call of get_worst_move and the push of its result, each        *)
(* reading game_state.board afresh.  web is                                *)
(*   board  : game_state.board                                             *)
(*   todo   : engine threads started that have not called the engine yet   *)
(*   held   : per engine thread that has, engine_move and the position it  *)
(*            was computed for                                             *)
(*   pushed : the last push: by whom, onto which position, for which       *)
(*            position the move was meant, whether it was legal there      *)
(*   broken : an illegal move was pushed (what the board is then is not    *)
(*            followed further)                                            *)

MaxThreads == 2       \* engine threads alive at a time

\* chess.Board()
NewBoard == Board(WebGame, TRUE, << >>)

\* web_app.py: handle_game_action
handle_game_action(b, action) ==
    IF action = "undo"
    THEN (IF Len(b.stack) = 0 THEN b
          ELSE IF Len(pop(b).stack) > 0 THEN pop(pop(b)) ELSE pop(b))
    ELSE IF action = "new_game" THEN NewBoard
    ELSE b

InitThreads ==
    /\ engine = "SearchEngine"
    /\ board = Board(Root(<< >>), TRUE, << >>)
    /\ last_move = NoLastMove
    /\ call = NoCall
    /\ ecache = EmptyDict
    /\ probe = NoProbe
    /\ stdio = NoStdio
    /\ web = [board |-> NewBoard, todo |-> 0, held |-> << >>, pushed |-> << >>,
              broken |-> FALSE]
    /\ inst = NoInst
    /\ pool = NoPool
    /\ ordering = NoOrdering

\* @socketio.on("move"): handle_move, starting an engine thread
MoveRequested ==
    /\ ~web.broken
    /\ Len(web.board.stack) < MaxWebPlies
    /\ web.todo + Len(web.held) < MaxThreads
    /\ \E data \in WebData :
       \E r \in {handle_move(web.board, data)} :
            web' = [web EXCEPT
                      !.board = r.board,
                      !.todo = @ + (IF r.started THEN 1 ELSE 0),
                      !.pushed = IF r.board = web.board THEN @
                                 ELSE <<[by |-> "move", legal |-> TRUE,
                                         at |-> web.board, for |-> web.board]>>]
    /\ UNCHANGED <<engine, board, last_move, call, ecache, probe, stdio, inst, pool, ordering>>

\* @socketio.on("game_action")
GameAction ==
    /\ ~web.broken
    /\ \E action \in {"flip", "undo", "new_game"} :
            web' = [web EXCEPT !.board = handle_game_action(@, action)]
    /\ UNCHANGED <<engine, board, last_move, call, ecache, probe, stdio, inst, pool, ordering>>

\* run_engine_and_emit: "engine_move = game_state.engine.get_worst_move(
\* game_state.board)"
EngineComputes ==
    /\ ~web.broken
    /\ web.todo > 0
    /\ \E budget \in {0, Unlimited} :
       \E out \in {SE_get_worst_move(Start(web.board, ecache, budget), 2)} :
            /\ web' = [web EXCEPT
                         !.todo = @ - 1,
                         !.held = Append(@, [move |-> out.move, for |-> web.board])]
            /\ ecache' = out.st.cache
    /\ UNCHANGED <<engine, board, last_move, call, probe, stdio, inst, pool, ordering>>

\* the sequence without its k-th element
Without(s, k) == SubSeq(s, 1, k - 1) \o SubSeq(s, k + 1, Len(s))

\* the index, among the legal moves of b, of the chess.Move the engine
\* returned as legal move i of another board; 0 where it is not legal on b
Carried(b, i) == IF i = None THEN 0 ELSE LegalIndex(b, WebMove(i))

\* run_engine_and_emit: "if engine_move: game_state.board.push(engine_move)"
\* and the emit
EnginePushes ==
    /\ ~web.broken
    /\ Len(web.board.stack) < MaxWebPlies
    /\ \E k \in DOMAIN web.held :
       \E idx \in {Carried(web.board, web.held[k].move)} :
            web' = [web EXCEPT
                      !.held = Without(@, k),
                      !.board = IF idx # 0 THEN push(@, idx) ELSE @,
                      !.broken = web.held[k].move # None /\ idx = 0,
                      !.pushed = IF web.held[k].move = None THEN @
                                 ELSE <<[by |-> "engine", legal |-> idx # 0,
                                         at |-> web.board,
                                         for |-> web.held[k].for]>>]
    /\ UNCHANGED <<engine, board, last_move, call, ecache, probe, stdio, inst, pool, ordering>>

NextThreads ==
    \/ MoveRequested
    \/ GameAction
    \/ EngineComputes
    \/ EnginePushes

SpecThreads == InitThreads /\ [][NextThreads]_vars

\* C29: however the engine thread interleaves with the "move", "undo" and
\* "new_game" handlers, every move pushed onto game_state.board is legal in
\* the position the board holds at the push, and the engine's move is pushed
\* onto the position it was computed for.
C29_PushesLegalOnComputedPosition ==
    \A i \in DOMAIN web.pushed :
        web.pushed[i].legal /\ web.pushed[i].at = web.pushed[i].for

=============================================================================
